---- MODULE Spec2Model ----
(***************************************************************************)
(* A model of ghrel: the sync / prune commands of src/ghrel/cli.py, the    *)
(* state store and lock of src/ghrel/state.py and the installer of         *)
(* src/ghrel/install.py.                                                   *)
(*                                                                         *)
(* Several invocations of the tool run concurrently against one state      *)
(* file, one lock file, one packages directory and one bin directory.      *)
(* The environment (the user, the forge) edits package files, publishes    *)
(* releases and deletes or corrupts installed binaries.                    *)
(*                                                                         *)
(* Interface note.  cli.run_sync calls install.install_release_asset with  *)
(* the arguments (package, release, asset, bin_dpath, client, temp_dpath), *)
(* while the definition in install.py also takes binary_pattern in fourth  *)
(* position; and install.select_asset reads package.asset as a dict while  *)
(* packages.PackageConfig declares it a string.  The model binds the       *)
(* arguments of these calls by role (the package, its resolved release and *)
(* asset, the bin directory, the client), so that the callee's body is     *)
(* what runs; taken literally every such call would raise before doing     *)
(* anything.                                                               *)
(***************************************************************************)
EXTENDS Integers, Sequences, FiniteSets, TLC

\* ------------------------------------------------------------------ bounds
\* Invocations started in one behaviour of Spec, and environment events
\* (edit, remove, publish, tamper) in it.
MaxRuns == 2
MaxEnv == 1
\* The same for SpecSeq, where the invocations run one after the other.
MaxSeqRuns == 3
MaxSeqEnv == 2
\* Release tags are 1..MaxVersion.
MaxVersion == 2
\* Entries of an archive handed to extract_archive.
MaxEntries == 3
\* Assets of a release handed to an asset selection.
MaxAssets == 3

\* ------------------------------------------------------------- value sets
\* Package names (stems of package files), in sorted order.
NameSeq == <<"a", "b">>
Names == {NameSeq[k] : k \in 1..Len(NameSeq)}
\* Install paths, bin_dpath / install_as.
Paths == {"x", "y"}
\* A package file that _load_package rejects with ConfigError.
Broken == "broken"
\* What a package file of the directory amounts to.
Descriptors == Paths \cup {Broken}
\* Concurrent invocations of the tool.
Procs == {"p", "q"}
Tags == 1..MaxVersion

\* No lock holder, no error.
None == "none"
\* A file that does not exist, and bytes written by something else than ghrel.
Absent == -1
Junk == 0

\* The bytes of the binary that release `tag` of package `name` carries.
NameIndex(name) == CHOOSE k \in 1..Len(NameSeq) : NameSeq[k] = name
Payload(name, tag) == 10 * NameIndex(name) + tag

\* state.PackageState (installed_at left out); NoState stands for None.
PackageState(version, checksum, binary_fpath) ==
    [version |-> version, checksum |-> checksum, binary_fpath |-> binary_fpath]
NoState == PackageState(0, 0, "none")

\* dict.get(name) and dict[name] = value on functions with a finite domain.
Get(d, name) == IF name \in DOMAIN d THEN d[name] ELSE NoState
Put(d, name, value) ==
    [m \in DOMAIN d \cup {name} |-> IF m = name THEN value ELSE d[m]]
Without(d, names) == [m \in DOMAIN d \ names |-> d[m]]
EmptyDict == [m \in {} |-> NoState]

\* The elements of a list.
Range(seq) == {seq[k] : k \in 1..Len(seq)}

\* sorted(names)
Sorted(names) == SelectSeq(NameSeq, LAMBDA n : n \in names)

\* -------------------------------------------------------------- variables
VARIABLES
    pkgfiles,        \* packages directory: declared name -> install path,
                     \* or Broken for a file that does not load or validate
    pkgdir,          \* whether the packages directory exists
    release,         \* forge: package name -> tag its release resolves to
    fs,              \* bin directory: path -> bytes, or Absent
    statefile,       \* state.json: name -> PackageState
    lock,            \* holder of state.json.lock, or None
    pc,              \* per invocation: idle, acquire, read, loop, planned
    cmd,             \* per invocation: [kind, dry_run]
    packages,        \* run_sync: packages loaded; run_prune: package_names
    state_packages,  \* the dict read from state.json and updated in the run
    queue,           \* names the for loop has still to visit
    plan,            \* the PackagePlan of the current iteration
    failures,        \* failures list of run_sync: <<[name, kind]>>
    err,             \* how the last invocation ended: None, the exception
                     \* that left it, or "Failed" for the failure report
    planned,         \* history: names _make_plan was called for in this run
    read0,           \* history: the dict read_state returned in this run
    runs,            \* invocations that may still start
    envs,            \* environment events that may still happen
    quiet,           \* history: invocations begun after the last env event
    clean,           \* history: {packages} of the last failure-free sync
    repaired,        \* history: names whose last install repaired drift
    fn               \* a call of one library function: its arguments and,
                     \* once it has returned or raised, its result

vars == <<pkgfiles, pkgdir, release, fs, statefile, lock, pc, cmd, packages,
          state_packages, queue, plan, failures, err, planned, read0,
          runs, envs, quiet, clean, repaired, fn>>

env_vars == <<pkgfiles, pkgdir, release>>
local_vars == <<cmd, packages, state_packages, queue, plan, failures,
                planned, read0>>

\* ----------------------------------------------------------------- helpers
\* install.compute_sha256: "sha256:" + hex digest of the file's bytes.
compute_sha256(bytes) == 1000 + bytes

\* No library function is being exercised on its own.
NoCall == [op |-> "none"]

\* No command: the invocation is not running.
NoCmd == [kind |-> "none", dry_run |-> FALSE]

\* cli.PackagePlan
PackagePlan(name, state, current, desired, fpath, action, reason) ==
    [name |-> name, current_state |-> state, current_version |-> current,
     desired_version |-> desired, install_fpath |-> fpath,
     action |-> action, reason |-> reason]
NoPlan == PackagePlan("", NoState, 0, 0, "", "none", None)

\* _make_plan with the version comparison ahead of the path comparison.
_make_plan_version_first(name, current_state, desired_version, install_fpath, disk) ==
    IF current_state = NoState
    THEN PackagePlan(name, current_state, 0, desired_version, install_fpath,
                     "install", None)
    ELSE IF current_state.version # desired_version
    THEN PackagePlan(name, current_state, current_state.version,
                     desired_version, install_fpath, "update", None)
    ELSE IF current_state.binary_fpath # install_fpath
    THEN PackagePlan(name, current_state, current_state.version,
                     desired_version, install_fpath,
                     "reinstall", "binary_path_changed")
    ELSE IF disk[current_state.binary_fpath] = Absent
    THEN PackagePlan(name, current_state, current_state.version,
                     desired_version, install_fpath,
                     "reinstall", "binary_missing")
    ELSE IF compute_sha256(disk[current_state.binary_fpath])
            # current_state.checksum
    THEN PackagePlan(name, current_state, current_state.version,
                     desired_version, install_fpath,
                     "reinstall", "checksum_mismatch")
    ELSE PackagePlan(name, current_state, current_state.version,
                     desired_version, install_fpath, "up_to_date", None)

\* _make_plan that adopts a file already at the target path of a package
\* without recorded state instead of installing.
_make_plan_adopt(name, current_state, desired_version, install_fpath, disk) ==
    IF current_state = NoState
    THEN IF disk[install_fpath] = Absent
         THEN PackagePlan(name, current_state, 0, desired_version,
                          install_fpath, "install", None)
         ELSE PackagePlan(name, current_state, 0, desired_version,
                          install_fpath, "up_to_date", None)
    ELSE IF current_state.binary_fpath # install_fpath
    THEN PackagePlan(name, current_state, current_state.version,
                     desired_version, install_fpath,
                     "reinstall", "binary_path_changed")
    ELSE IF current_state.version # desired_version
    THEN PackagePlan(name, current_state, current_state.version,
                     desired_version, install_fpath, "update", None)
    ELSE IF disk[current_state.binary_fpath] = Absent
    THEN PackagePlan(name, current_state, current_state.version,
                     desired_version, install_fpath,
                     "reinstall", "binary_missing")
    ELSE IF compute_sha256(disk[current_state.binary_fpath])
            # current_state.checksum
    THEN PackagePlan(name, current_state, current_state.version,
                     desired_version, install_fpath,
                     "reinstall", "checksum_mismatch")
    ELSE PackagePlan(name, current_state, current_state.version,
                     desired_version, install_fpath, "up_to_date", None)

\* _make_plan with the drift checks ahead of the version comparison.
_make_plan_drift_first(name, current_state, desired_version, install_fpath, disk) ==
    IF current_state = NoState
    THEN PackagePlan(name, current_state, 0, desired_version, install_fpath,
                     "install", None)
    ELSE IF current_state.binary_fpath # install_fpath
    THEN PackagePlan(name, current_state, current_state.version,
                     desired_version, install_fpath,
                     "reinstall", "binary_path_changed")
    ELSE IF disk[current_state.binary_fpath] = Absent
    THEN PackagePlan(name, current_state, current_state.version,
                     desired_version, install_fpath,
                     "reinstall", "binary_missing")
    ELSE IF compute_sha256(disk[current_state.binary_fpath])
            # current_state.checksum
    THEN PackagePlan(name, current_state, current_state.version,
                     desired_version, install_fpath,
                     "reinstall", "checksum_mismatch")
    ELSE IF current_state.version # desired_version
    THEN PackagePlan(name, current_state, current_state.version,
                     desired_version, install_fpath, "update", None)
    ELSE PackagePlan(name, current_state, current_state.version,
                     desired_version, install_fpath, "up_to_date", None)

\* cli._make_plan after release and asset are resolved: the decision table.
_make_plan(name, current_state, desired_version, install_fpath, disk) ==
    IF current_state = NoState
    THEN PackagePlan(name, current_state, 0, desired_version, install_fpath,
                     "install", None)
    ELSE IF current_state.binary_fpath # install_fpath
    THEN PackagePlan(name, current_state, current_state.version,
                     desired_version, install_fpath,
                     "reinstall", "binary_path_changed")
    ELSE IF current_state.version # desired_version
    THEN PackagePlan(name, current_state, current_state.version,
                     desired_version, install_fpath, "update", None)
    ELSE IF disk[current_state.binary_fpath] = Absent
    THEN PackagePlan(name, current_state, current_state.version,
                     desired_version, install_fpath,
                     "reinstall", "binary_missing")
    ELSE IF compute_sha256(disk[current_state.binary_fpath])
            # current_state.checksum
    THEN PackagePlan(name, current_state, current_state.version,
                     desired_version, install_fpath,
                     "reinstall", "checksum_mismatch")
    ELSE PackagePlan(name, current_state, current_state.version,
                     desired_version, install_fpath, "up_to_date", None)

\* _install_binary that copies straight to the destination and compares
\* the checksums afterwards.
_install_binary_in_place(disk, source_bytes, copied_bytes, dest_fpath) ==
    [disk |-> [disk EXCEPT ![dest_fpath] = copied_bytes],
     tmp |-> Absent,
     raised |-> IF compute_sha256(source_bytes) # compute_sha256(copied_bytes)
                THEN "GhrelError" ELSE None,
     checksum |-> compute_sha256(source_bytes)]

\* install._install_binary: shutil.copy to <dest>.tmp (copied_bytes is what
\* the copy wrote), compare the two checksums and raise if they differ,
\* else chmod and os.replace the temp file over dest.
_install_binary(disk, source_bytes, copied_bytes, dest_fpath) ==
    IF compute_sha256(source_bytes) # compute_sha256(copied_bytes)
    THEN [disk |-> disk, tmp |-> copied_bytes, raised |-> "GhrelError",
          checksum |-> compute_sha256(source_bytes)]
    ELSE [disk |-> [disk EXCEPT ![dest_fpath] = copied_bytes],
          tmp |-> Absent, raised |-> None,
          checksum |-> compute_sha256(source_bytes)]

\* install.install_release_asset when download, extraction and copy succeed.
install_release_asset(disk, name, tag, dest_fpath) ==
    LET done == _install_binary(disk, Payload(name, tag), Payload(name, tag),
                                dest_fpath)
    IN  [disk |-> done.disk,
         package_state |-> PackageState(tag, done.checksum, dest_fpath)]

\* state.read_state and state.write_state on a well-formed document.
read_state == statefile
\* write_state that writes the entries the file does not hold yet.
write_state_fresh(state) ==
    statefile' = [n \in DOMAIN state \ DOMAIN statefile |-> state[n]]
write_state(state) == statefile' = state

\* ------------------------------------------------------------------- Init
Start(nruns, nenvs) ==
    /\ pkgfiles \in [Names -> Paths]
    /\ pkgdir = TRUE
    /\ release = [n \in Names |-> 1]
    /\ fs = [f \in Paths |-> Absent]
    /\ statefile = EmptyDict
    /\ lock = None
    /\ pc = [i \in Procs |-> "idle"]
    /\ cmd = [i \in Procs |-> NoCmd]
    /\ packages = [i \in Procs |-> EmptyDict]
    /\ state_packages = [i \in Procs |-> EmptyDict]
    /\ queue = [i \in Procs |-> <<>>]
    /\ plan = [i \in Procs |-> NoPlan]
    /\ failures = [i \in Procs |-> <<>>]
    /\ err = [i \in Procs |-> None]
    /\ planned = [i \in Procs |-> <<>>]
    /\ read0 = [i \in Procs |-> EmptyDict]
    /\ runs = nruns
    /\ envs = nenvs
    /\ quiet = {}
    /\ clean = {}
    /\ repaired = {}
    /\ fn = NoCall

Init == Start(MaxRuns, MaxEnv)

\* --------------------------------------------------------------- run_sync
\* The locals of an invocation that has returned or raised.
Forget(i) ==
    /\ packages' = [packages EXCEPT ![i] = EmptyDict]
    /\ state_packages' = [state_packages EXCEPT ![i] = EmptyDict]
    /\ queue' = [queue EXCEPT ![i] = <<>>]
    /\ plan' = [plan EXCEPT ![i] = NoPlan]
    /\ failures' = [failures EXCEPT ![i] = <<>>]
    /\ planned' = [planned EXCEPT ![i] = <<>>]
    /\ read0' = [read0 EXCEPT ![i] = EmptyDict]
    /\ cmd' = [cmd EXCEPT ![i] = NoCmd]
    /\ quiet' = quiet \ {i}

Failure(name, kind) == [name |-> name, kind |-> kind]

\* A command raises before it has taken the lock: nothing of the
\* invocation is left but the exception and the command that raised it.
Raise(i, kind, dry_run, error) ==
    /\ err' = [err EXCEPT ![i] = error]
    /\ cmd' = [cmd EXCEPT ![i] = [kind |-> kind, dry_run |-> dry_run]]
    /\ UNCHANGED <<pc, packages, state_packages, queue, plan, failures,
                   planned, read0, quiet>>

\* load_packages that leaves out the files it cannot load.
load_packages_lenient(files) ==
    [raised |-> None,
     packages |-> Without(files, {n \in DOMAIN files : files[n] = Broken})]

\* packages.load_packages: every *.py file is loaded and validated; the
\* first that fails raises ConfigError.
load_packages(files) ==
    IF \E n \in DOMAIN files : files[n] = Broken
    THEN [raised |-> "ConfigError", packages |-> EmptyDict]
    ELSE [raised |-> None, packages |-> files]

\* run_sync up to the with statement: the packages directory must exist,
\* load_packages, client, bin_dpath.
SyncBegin(i, dry_run) ==
    /\ pc[i] = "idle"
    /\ runs > 0
    /\ runs' = runs - 1
    /\ LET loaded == load_packages(pkgfiles)
       IN IF ~pkgdir \/ loaded.raised # None
          THEN Raise(i, "sync", dry_run, "ConfigError")
          ELSE /\ cmd' = [cmd EXCEPT ![i] =
                             [kind |-> "sync", dry_run |-> dry_run]]
               /\ packages' = [packages EXCEPT ![i] = loaded.packages]
               /\ err' = [err EXCEPT ![i] = None]
               /\ pc' = [pc EXCEPT ![i] = "acquire"]
               /\ quiet' = quiet \cup {i}
               /\ UNCHANGED <<state_packages, queue, plan, failures,
                              planned, read0>>
    /\ UNCHANGED <<env_vars, fs, statefile, lock, envs, clean, repaired>>
    /\ UNCHANGED fn

\* acquire_lock that waits for the holder instead of raising.
acquire_lock_blocking(i) ==
    /\ pc[i] = "acquire"
    /\ lock = None
    /\ lock' = i
    /\ pc' = [pc EXCEPT ![i] = "read"]
    /\ UNCHANGED <<err, local_vars, quiet>>
    /\ UNCHANGED <<env_vars, fs, statefile, runs, envs, clean, repaired>>
    /\ UNCHANGED fn

\* state.acquire_lock: lock.acquire(timeout=0), LockError if it is held.
acquire_lock(i) ==
    /\ pc[i] = "acquire"
    /\ IF lock = None
       THEN /\ lock' = i
            /\ pc' = [pc EXCEPT ![i] = "read"]
            /\ UNCHANGED <<err, local_vars, quiet>>
       ELSE /\ err' = [err EXCEPT ![i] = "LockError"]
            /\ pc' = [pc EXCEPT ![i] = "idle"]
            /\ packages' = [packages EXCEPT ![i] = EmptyDict]
            /\ quiet' = quiet \ {i}
            /\ UNCHANGED <<lock, cmd, state_packages, queue, plan, failures,
                           planned, read0>>
    /\ UNCHANGED <<env_vars, fs, statefile, runs, envs, clean, repaired>>
    /\ UNCHANGED fn

\* run_sync / run_prune holding the lock around the read only.
ReadState_unlocked(i) ==
    /\ pc[i] = "read"
    /\ state_packages' = [state_packages EXCEPT ![i] = read_state]
    /\ read0' = [read0 EXCEPT ![i] = read_state]
    /\ queue' = [queue EXCEPT ![i] =
                    IF cmd[i].kind = "sync"
                    THEN Sorted(DOMAIN packages[i]) ELSE <<>>]
    /\ pc' = [pc EXCEPT ![i] = "loop"]
    /\ lock' = None
    /\ UNCHANGED <<env_vars, fs, statefile, cmd, packages, plan,
                   failures, err, planned, runs, envs, quiet, clean,
                   repaired>>
    /\ UNCHANGED fn

\* state = read_state(); state_packages = dict(state.packages), under the lock.
ReadState(i) ==
    /\ pc[i] = "read"
    /\ state_packages' = [state_packages EXCEPT ![i] = read_state]
    /\ read0' = [read0 EXCEPT ![i] = read_state]
    /\ queue' = [queue EXCEPT ![i] =
                    IF cmd[i].kind = "sync"
                    THEN Sorted(DOMAIN packages[i]) ELSE <<>>]
    /\ pc' = [pc EXCEPT ![i] = "loop"]
    /\ UNCHANGED <<env_vars, fs, statefile, lock, cmd, packages, plan,
                   failures, err, planned, runs, envs, quiet, clean,
                   repaired>>
    /\ UNCHANGED fn

\* failures.append((name, ...)); break -- the loop stops at the first failure.
FailAndBreak(i, name, kind) ==
    /\ failures' = [failures EXCEPT ![i] = Append(@, Failure(name, kind))]
    /\ queue' = [queue EXCEPT ![i] = <<>>]
    /\ pc' = [pc EXCEPT ![i] = "loop"]
    /\ plan' = [plan EXCEPT ![i] = NoPlan]

\* failures.append((name, ...)); continue
FailAndContinue(i, name, kind) ==
    /\ failures' = [failures EXCEPT ![i] = Append(@, Failure(name, kind))]
    /\ queue' = [queue EXCEPT ![i] = Tail(@)]
    /\ pc' = [pc EXCEPT ![i] = "loop"]
    /\ plan' = [plan EXCEPT ![i] = NoPlan]

\* The continue taken for an up_to_date plan only, a dry run installing.
Skips_noop_only(dry_run, action) == action = "up_to_date"

\* if cmd.dry_run: ... continue; if plan.action == "up_to_date": ... continue
Skips(dry_run, action) == dry_run \/ action = "up_to_date"

\* One iteration of the for loop up to the install: _make_plan and the
\* dry_run / up_to_date continue.  outcome is how release resolution ended.
SyncPlan(i) ==
    /\ pc[i] = "loop"
    /\ cmd[i].kind = "sync"
    /\ queue[i] # <<>>
    /\ LET name == Head(queue[i])
       IN \E outcome \in {"ok", "GhrelError", "AuthError"} :
            IF outcome = "ok"
            THEN LET p == _make_plan(name, Get(state_packages[i], name),
                                     release[name], packages[i][name], fs)
                 IN /\ plan' = [plan EXCEPT ![i] = p]
                    /\ planned' = [planned EXCEPT ![i] = Append(@, name)]
                    /\ IF Skips(cmd[i].dry_run, p.action)
                       THEN /\ queue' = [queue EXCEPT ![i] = Tail(@)]
                            /\ pc' = pc
                       ELSE /\ queue' = queue
                            /\ pc' = [pc EXCEPT ![i] = "planned"]
                    /\ UNCHANGED <<lock, err, cmd, packages, state_packages,
                                   failures, read0, quiet>>
            ELSE IF outcome = "AuthError"
            THEN /\ lock' = None
                 /\ err' = [err EXCEPT ![i] = "AuthError"]
                 /\ pc' = [pc EXCEPT ![i] = "idle"]
                 /\ Forget(i)
            ELSE /\ FailAndContinue(i, name, outcome)
                 /\ planned' = [planned EXCEPT ![i] = Append(@, name)]
                 /\ UNCHANGED <<lock, err, cmd, packages, state_packages,
                                read0, quiet>>
    /\ UNCHANGED <<env_vars, fs, statefile, runs, envs, clean, repaired>>
    /\ UNCHANGED fn

\* The plan reasons that report drift of the installed binary.
Drift == {"binary_missing", "checksum_mismatch"}

\* state_packages[name] = ... placed ahead of the post_install and verify
\* hooks, so that it is reached when one of them fails.
RecordState_early(i, name, outcome, package_state) ==
    state_packages' =
        IF outcome \in {"ok", "post_install", "verify"}
        THEN [state_packages EXCEPT ![i] = Put(@, name, package_state)]
        ELSE state_packages

\* state_packages[name] = install_result.package_state: the line is reached
\* when install, post_install and verify all succeeded, and not otherwise.
RecordState(i, name, outcome, package_state) ==
    state_packages' =
        IF outcome = "ok"
        THEN [state_packages EXCEPT ![i] = Put(@, name, package_state)]
        ELSE state_packages

\* The rest of the iteration: install_release_asset, _run_post_install,
\* _run_verify, then state_packages[name] = ... and write_state.  An
\* AuthError of the download is a GhrelError and is caught as one.
SyncApply(i) ==
    /\ pc[i] = "planned"
    /\ LET name == Head(queue[i])
           done == install_release_asset(fs, name, plan[i].desired_version,
                                         packages[i][name])
       IN \E outcome \in {"ok", "GhrelError", "AuthError",
                          "post_install", "verify", "killed"} :
            /\ fs' = IF outcome \in {"GhrelError", "AuthError"}
                     THEN fs ELSE done.disk
            /\ IF outcome = "killed"
               THEN /\ lock' = None
                    /\ pc' = [pc EXCEPT ![i] = "idle"]
                    /\ Forget(i)
                    /\ UNCHANGED <<statefile, err, repaired>>
               ELSE IF outcome = "ok"
               THEN /\ RecordState(i, name, outcome, done.package_state)
                    /\ write_state(state_packages'[i])
                    /\ queue' = [queue EXCEPT ![i] = Tail(@)]
                    /\ pc' = [pc EXCEPT ![i] = "loop"]
                    /\ plan' = [plan EXCEPT ![i] = NoPlan]
                    /\ repaired' = IF plan[i].reason \in Drift /\ i \in quiet
                                   THEN repaired \cup {name}
                                   ELSE repaired \ {name}
                    /\ UNCHANGED <<lock, err, cmd, packages, failures,
                                   planned, read0, quiet>>
               ELSE /\ RecordState(i, name, outcome, done.package_state)
                    /\ FailAndContinue(i, name, outcome)
                    /\ UNCHANGED <<lock, err, cmd, packages, statefile,
                                   planned, read0, quiet, repaired>>
    /\ clean' = {}
    /\ UNCHANGED <<env_vars, runs, envs>>
    /\ UNCHANGED fn

\* The loop is over: the failures are printed and the lock is released.
SyncFinish(i) ==
    /\ pc[i] = "loop"
    /\ cmd[i].kind = "sync"
    /\ queue[i] = <<>>
    /\ lock' = None
    /\ pc' = [pc EXCEPT ![i] = "idle"]
    /\ err' = [err EXCEPT ![i] = IF failures[i] = <<>> THEN None ELSE "Failed"]
    /\ clean' = IF ~cmd[i].dry_run /\ failures[i] = <<>> /\ i \in quiet
                THEN {packages[i]} ELSE clean
    /\ Forget(i)
    /\ UNCHANGED <<env_vars, fs, statefile, runs, envs, repaired>>
    /\ UNCHANGED fn

\* -------------------------------------------------------------- run_prune
\* The orphan loop when it stops after the first name.
Orphans_first(state, package_names) ==
    LET orphans == DOMAIN state \ package_names
    IN {n \in orphans : \A m \in orphans : NameIndex(n) <= NameIndex(m)}

\* orphans = [name for name in state.packages if name not in package_names]
Orphans(state, package_names) == DOMAIN state \ package_names

\* run_prune --dry-run: the packages directory must exist; read_state
\* without the lock, report the orphans.
PruneDryRun(i) ==
    /\ pc[i] = "idle"
    /\ runs > 0
    /\ runs' = runs - 1
    /\ IF ~pkgdir
       THEN Raise(i, "prune", TRUE, "ConfigError")
       ELSE /\ err' = [err EXCEPT ![i] = None]
            /\ UNCHANGED <<pc, local_vars, quiet>>
    /\ UNCHANGED <<env_vars, fs, statefile, lock, envs, clean, repaired>>
    /\ UNCHANGED fn

\* The start of run_prune: list_package_names and on to the lock.
ListAndLock(i) ==
    /\ cmd' = [cmd EXCEPT ![i] = [kind |-> "prune", dry_run |-> FALSE]]
    /\ packages' = [packages EXCEPT ![i] = pkgfiles]
    /\ err' = [err EXCEPT ![i] = None]
    /\ pc' = [pc EXCEPT ![i] = "acquire"]
    /\ UNCHANGED <<state_packages, queue, plan, failures, planned, read0,
                   quiet>>

\* run_prune that relies on list_package_names, which returns the empty
\* set for a missing directory.
PruneBegin_unchecked(i) ==
    /\ pc[i] = "idle"
    /\ runs > 0
    /\ runs' = runs - 1
    /\ ListAndLock(i)
    /\ UNCHANGED <<env_vars, fs, statefile, lock, envs, clean, repaired>>
    /\ UNCHANGED fn

\* run_prune up to the with statement: the packages directory must exist,
\* then list_package_names.
PruneBegin(i) ==
    /\ pc[i] = "idle"
    /\ runs > 0
    /\ runs' = runs - 1
    /\ IF ~pkgdir
       THEN Raise(i, "prune", FALSE, "ConfigError")
       ELSE ListAndLock(i)
    /\ UNCHANGED <<env_vars, fs, statefile, lock, envs, clean, repaired>>
    /\ UNCHANGED fn

\* The sweep under the lock: unlink each orphan's binary, drop its entry,
\* write the remaining entries; nothing is written when there is no orphan.
PruneSweep(i) ==
    /\ pc[i] = "loop"
    /\ cmd[i].kind = "prune"
    /\ LET state == state_packages[i]
           orphans == Orphans(state, DOMAIN packages[i])
       IN IF orphans = {}
          THEN UNCHANGED <<fs, statefile, clean, repaired>>
          ELSE /\ fs' = [f \in Paths |->
                            IF \E n \in orphans : state[n].binary_fpath = f
                            THEN Absent ELSE fs[f]]
               /\ write_state(Without(state, orphans))
               /\ clean' = {}
               /\ UNCHANGED repaired
    /\ lock' = None
    /\ pc' = [pc EXCEPT ![i] = "idle"]
    /\ Forget(i)
    /\ UNCHANGED <<env_vars, err, runs, envs>>
    /\ UNCHANGED fn

\* The process is killed inside the with statement; the OS drops its lock.
Kill(i) ==
    /\ pc[i] \in {"read", "loop", "planned"}
    /\ lock' = None
    /\ pc' = [pc EXCEPT ![i] = "idle"]
    /\ Forget(i)
    /\ UNCHANGED <<env_vars, fs, statefile, err, runs, envs, clean, repaired>>
    /\ UNCHANGED fn

\* ------------------------------------------------------------ environment
\* One event outside ghrel.  An invocation reads the package directory
\* before it takes the lock and everything else inside the locked section,
\* so the events are placed where an invocation can tell them apart: the
\* package directory changes before or after the lock is requested, releases
\* and installed files change between invocations.
EnvStep(where) ==
    /\ \A i \in Procs : pc[i] \in where
    /\ envs > 0
    /\ envs' = envs - 1
    /\ quiet' = {}
    /\ clean' = {}
    /\ repaired' = {}
    /\ UNCHANGED <<statefile, lock, pc, err, runs, local_vars>>
    /\ UNCHANGED fn

\* The user edits install_as / GHREL_BIN of a package, adds or removes a
\* file, or leaves a file that does not load; writing a file makes the
\* directory.
EditPackage(name, path) ==
    /\ EnvStep({"idle", "acquire"})
    /\ name \in DOMAIN pkgfiles => pkgfiles[name] # path
    /\ pkgfiles' = Put(pkgfiles, name, path)
    /\ pkgdir' = TRUE
    /\ UNCHANGED <<release, fs>>

RemovePackage(name) ==
    /\ EnvStep({"idle", "acquire"})
    /\ name \in DOMAIN pkgfiles
    /\ pkgfiles' = Without(pkgfiles, {name})
    /\ UNCHANGED <<pkgdir, release, fs>>

\* The packages directory is removed, or XDG_CONFIG_HOME now points to a
\* place without one.
RemoveDir ==
    /\ EnvStep({"idle"})
    /\ pkgdir
    /\ pkgdir' = FALSE
    /\ pkgfiles' = EmptyDict
    /\ UNCHANGED <<release, fs>>

\* The forge publishes a newer release of a package.
Publish(name) ==
    /\ EnvStep({"idle"})
    /\ release[name] < MaxVersion
    /\ release' = [release EXCEPT ![name] = @ + 1]
    /\ UNCHANGED <<pkgfiles, pkgdir, fs>>

\* An installed binary is deleted or overwritten behind ghrel's back.
Tamper(path, bytes) ==
    /\ EnvStep({"idle"})
    /\ fs[path] # Absent
    /\ fs[path] # bytes
    /\ fs' = [fs EXCEPT ![path] = bytes]
    /\ UNCHANGED <<pkgfiles, pkgdir, release>>

\* ------------------------------------------------------------------- Next
Next ==
    \/ \E i \in Procs, dry_run \in BOOLEAN : SyncBegin(i, dry_run)
    \/ \E i \in Procs : acquire_lock(i)
    \/ \E i \in Procs : ReadState(i)
    \/ \E i \in Procs : SyncPlan(i)
    \/ \E i \in Procs : SyncApply(i)
    \/ \E i \in Procs : SyncFinish(i)
    \/ \E i \in Procs : PruneDryRun(i)
    \/ \E i \in Procs : PruneBegin(i)
    \/ \E i \in Procs : PruneSweep(i)
    \/ \E i \in Procs : Kill(i)
    \/ \E name \in Names, path \in Descriptors : EditPackage(name, path)
    \/ \E name \in Names : RemovePackage(name)
    \/ RemoveDir
    \/ \E name \in Names : Publish(name)
    \/ \E path \in Paths, bytes \in {Absent, Junk} : Tamper(path, bytes)

Spec == Init /\ [][Next]_vars

\* The same program when one invocation runs at a time.
InitSeq == Start(MaxSeqRuns, MaxSeqEnv)

NextSeq ==
    \/ \E dry_run \in BOOLEAN : SyncBegin("p", dry_run)
    \/ acquire_lock("p")
    \/ ReadState("p")
    \/ SyncPlan("p")
    \/ SyncApply("p")
    \/ SyncFinish("p")
    \/ PruneDryRun("p")
    \/ PruneBegin("p")
    \/ PruneSweep("p")
    \/ Kill("p")
    \/ \E name \in Names, path \in Descriptors : EditPackage(name, path)
    \/ \E name \in Names : RemovePackage(name)
    \/ RemoveDir
    \/ \E name \in Names : Publish(name)
    \/ \E path \in Paths, bytes \in {Absent, Junk} : Tamper(path, bytes)

SpecSeq == InitSeq /\ [][NextSeq]_vars

TypeOK ==
    /\ DOMAIN pkgfiles \subseteq Names
    /\ pkgdir \in BOOLEAN
    /\ ~pkgdir => pkgfiles = EmptyDict
    /\ lock \in Procs \cup {None}
    /\ \A i \in Procs : pc[i] \in {"idle", "acquire", "read", "loop", "planned"}
    /\ \A i \in Procs : err[i] \in
            {None, "ConfigError", "LockError", "AuthError", "Failed"}
    /\ repaired \subseteq Names
    /\ runs \in Nat
    /\ envs \in Nat

\* ------------------------------------------------------ library functions
\* The variables of the commands; a library call leaves them alone.
run_vars == <<pkgfiles, pkgdir, release, fs, statefile, lock, pc, cmd, packages,
              state_packages, queue, plan, failures, err, planned, read0,
              runs, envs, quiet, clean, repaired>>

\* The result of a call that has not returned yet.
Pending == "pending"

\* Bytes a file can hold in a call of _install_binary.
Bytes == {Junk, Payload(NameSeq[1], 1), Payload(NameSeq[1], 2)}

\* The calls _install_binary(source_fpath, dest_fpath): the bin directory
\* before the call, the source file, and what shutil.copy writes.
InstallBinaryCalls ==
    {[op |-> "_install_binary", before |-> d, disk |-> d, source |-> src,
      copied |-> cp, dest |-> dst, tmp |-> Absent, raised |-> Pending,
      checksum |-> 0] :
        d \in [Paths -> {Absent} \cup Bytes], src \in Bytes \ {Junk},
        cp \in Bytes, dst \in Paths}

InstallBinaryCall ==
    /\ fn.op = "_install_binary"
    /\ fn.raised = Pending
    /\ LET r == _install_binary(fn.disk, fn.source, fn.copied, fn.dest)
       IN fn' = [fn EXCEPT !.disk = r.disk, !.tmp = r.tmp,
                           !.raised = r.raised, !.checksum = r.checksum]
    /\ UNCHANGED run_vars

\* A file of the state directory: whether it exists, and its text as a list
\* of tokens.
File(exists, text) == [exists |-> exists, text |-> text]
Missing == File(FALSE, <<>>)

\* json.dump of the document whose packages are `names`.
Dump(names) == <<"{">> \o Sorted(names) \o <<"}">>

\* json.loads and the loop of read_state over data["packages"].
Loads(text) ==
    IF Len(text) >= 2 /\ text[1] = "{" /\ text[Len(text)] = "}"
    THEN [ok |-> TRUE, doc |-> Range(SubSeq(text, 2, Len(text) - 1))]
    ELSE [ok |-> FALSE, doc |-> {}]

\* state.read_state: State() when state.json does not exist, StateError
\* (ok = FALSE) when its text is not a document.
ReadStateFile(file) ==
    IF ~file.exists THEN [ok |-> TRUE, doc |-> {}] ELSE Loads(file.text)

\* The calls write_state(State(packages=doc)) over a state.json that is
\* missing or holds the document old; seen is what the last read_state of
\* another process returned.
WriteStateCalls ==
    {[op |-> "write_state", old |-> IF present THEN old ELSE {},
      doc |-> doc,
      file |-> IF present THEN File(TRUE, Dump(old)) ELSE Missing,
      tmp |-> Missing, at |-> "open",
      seen |-> [read |-> FALSE, ok |-> TRUE, doc |-> {}]] :
        old \in SUBSET Names, doc \in SUBSET Names, present \in BOOLEAN}

\* tempfile.NamedTemporaryFile(mode="w", dir=state_fpath.parent, ...)
WriteStateOpen ==
    /\ fn.op = "write_state"
    /\ fn.at = "open"
    /\ fn' = [fn EXCEPT !.tmp = File(TRUE, <<>>), !.at = "dump"]
    /\ UNCHANGED run_vars

\* json.dump that writes the document into state.json itself.
write_chunk_in_place(w, token) ==
    [w EXCEPT !.file = File(TRUE, IF w.tmp.text = <<>> THEN <<token>>
                                  ELSE Append(w.file.text, token)),
              !.tmp = File(TRUE, Append(w.tmp.text, token))]

\* One write of json.dump(data, fd): the next token goes to the temp file.
write_chunk(w, token) ==
    [w EXCEPT !.tmp = File(TRUE, Append(w.tmp.text, token))]

\* json.dump, a piece at a time; the with block ends when all is written.
WriteStateDump ==
    /\ fn.op = "write_state"
    /\ fn.at = "dump"
    /\ LET text == Dump(fn.doc)
           k == Len(fn.tmp.text) + 1
           w == write_chunk(fn, text[k])
       IN fn' = [w EXCEPT !.at = IF k = Len(text) THEN "replace" ELSE "dump"]
    /\ UNCHANGED run_vars

\* os.replace(tmp_fpath, state_fpath)
WriteStateReplace ==
    /\ fn.op = "write_state"
    /\ fn.at = "replace"
    /\ fn' = [fn EXCEPT !.file = fn.tmp, !.tmp = Missing, !.at = "done"]
    /\ UNCHANGED run_vars

\* The writing process dies before write_state returns.
WriteStateCrash ==
    /\ fn.op = "write_state"
    /\ fn.at \in {"open", "dump", "replace"}
    /\ fn' = [fn EXCEPT !.at = "crashed"]
    /\ UNCHANGED run_vars

\* read_state in another process (sync, prune, list), at any moment.
ReadStateCall ==
    /\ fn.op = "write_state"
    /\ LET r == ReadStateFile(fn.file)
       IN fn' = [fn EXCEPT !.seen = [read |-> TRUE, ok |-> r.ok, doc |-> r.doc]]
    /\ UNCHANGED run_vars

\* The destination directory of an extraction, as path components.
DestRoot == <<"tmp", "out">>

\* Entry names, as the components of a PurePosixPath: a relative path, an
\* absolute one, and two that climb out of the destination.
EntryNames ==
    {<<"bin", "tool">>, <<"/", "etc", "passwd">>, <<"..", "escape">>,
     <<"bin", "..", "..", "escape">>}

\* tarfile / zipfile entry types: a regular file, a symlink, a hard link.
EntryKinds == {"file", "symlink", "hardlink"}

\* Sequences of at most n entries.
SeqsUpTo(S, n) == UNION {[1..k -> S] : k \in 0..n}

\* PurePosixPath(name).is_absolute()
is_absolute(name) == name # <<>> /\ name[1] = "/"

\* Path.resolve(strict=False) of base / name: an absolute name replaces the
\* base, ".." drops the last component.
RECURSIVE Resolve(_, _)
Resolve(base, name) ==
    IF name = <<>> THEN base
    ELSE IF Head(name) = "/" THEN Resolve(<<>>, Tail(name))
    ELSE IF Head(name) = ".."
    THEN Resolve(IF base = <<>> THEN <<>>
                 ELSE SubSeq(base, 1, Len(base) - 1), Tail(name))
    ELSE Resolve(Append(base, Head(name)), Tail(name))

\* archive._is_within_directory: target_fpath.relative_to(base_dpath) works.
_is_within_directory(base_dpath, target_fpath) ==
    /\ Len(target_fpath) >= Len(base_dpath)
    /\ SubSeq(target_fpath, 1, Len(base_dpath)) = base_dpath

\* What extractall leaves under the destination for one entry.
Extracted(entry) ==
    [path |-> Resolve(DestRoot, entry.name), kind |-> entry.kind]

\* The checks of the loop of _extract_tar on one member.
TarUnsafe(member) ==
    \/ member.kind \in {"symlink", "hardlink"}
    \/ is_absolute(member.name)
    \/ ~_is_within_directory(DestRoot, Resolve(DestRoot, member.name))

\* The checks of the loop of _extract_zip on one name of zf.namelist().
ZipUnsafe(name) ==
    \/ is_absolute(name)
    \/ ~_is_within_directory(DestRoot, Resolve(DestRoot, name))

\* _extract_tar that extracts each member as soon as it has passed.
_extract_tar_each(members) ==
    LET bad == {k \in 1..Len(members) : TarUnsafe(members[k])}
        stop == IF bad = {} THEN Len(members) + 1
                ELSE CHOOSE k \in bad : \A l \in bad : k <= l
    IN [raised |-> IF bad = {} THEN None ELSE "ArchiveError",
        written |-> {Extracted(members[k]) : k \in 1..(stop - 1)}]

\* archive._extract_tar: every member is checked, then tar.extractall.
_extract_tar(members) ==
    IF \E k \in 1..Len(members) : TarUnsafe(members[k])
    THEN [raised |-> "ArchiveError", written |-> {}]
    ELSE [raised |-> None,
          written |-> {Extracted(members[k]) : k \in 1..Len(members)}]

\* archive._extract_zip: every name is checked, then zf.extractall, which
\* writes a symlink entry as a regular file holding the link target.
_extract_zip(members) ==
    IF \E k \in 1..Len(members) : ZipUnsafe(members[k].name)
    THEN [raised |-> "ArchiveError", written |-> {}]
    ELSE [raised |-> None,
          written |-> {[path |-> Resolve(DestRoot, members[k].name),
                        kind |-> "file"] : k \in 1..Len(members)}]

\* archive.extract_archive: tar, else zip, else unsupported.
extract_archive(format, members) ==
    IF format = "tar" THEN _extract_tar(members)
    ELSE IF format = "zip" THEN _extract_zip(members)
    ELSE [raised |-> "ArchiveError", written |-> {}]

\* Archives of at most MaxEntries entries of the given types.
Archives(kinds) == SeqsUpTo([kind : kinds, name : EntryNames], MaxEntries)

\* The calls extract_archive(archive_fpath, dest_dpath) on an empty
\* destination; zip archives carry no hard links.
ExtractCalls ==
    {[op |-> "extract_archive", format |-> f, members |-> m,
      raised |-> Pending, written |-> {}] :
        f \in {"tar", "other"}, m \in Archives(EntryKinds)}
    \cup
    {[op |-> "extract_archive", format |-> "zip", members |-> m,
      raised |-> Pending, written |-> {}] :
        m \in Archives({"file", "symlink"})}

ExtractCall ==
    /\ fn.op = "extract_archive"
    /\ fn.raised = Pending
    /\ LET r == extract_archive(fn.format, fn.members)
       IN fn' = [fn EXCEPT !.raised = r.raised, !.written = r.written]
    /\ UNCHANGED run_vars

\* Names of release assets, one character per element.
TLinuxAmd64 ==
    <<"t","-","l","i","n","u","x","-","a","m","d","6","4",".","t","g","z">>
TLinuxArm64 ==
    <<"t","-","l","i","n","u","x","-","a","r","m","6","4",".","t","g","z">>
TDarwinArm64 ==
    <<"t","-","d","a","r","w","i","n","-","a","r","m","6","4",".","t","g","z">>
TLinuxX64 ==
    <<"T","-","L","i","n","u","x","-","x","6","4",".","t","g","z">>
AssetNames == {TLinuxAmd64, TLinuxArm64, TDarwinArm64, TLinuxX64}

\* Glob patterns a package file can give for its asset.
AnyLinux == <<"*","l","i","n","u","x","*">>
AnyAmd64 == <<"*","a","m","d","6","4","*">>
AnyArm64Tgz == <<"*","-","a","r","m","6","4",".","t","g","z">>
LinuxA64 ==
    <<"t","-","l","i","n","u","x","-","a","?","?","6","4",".","t","g","z">>
AnyWindows == <<"*","w","i","n","d","o","w","s","*">>
Patterns ==
    {AnyLinux, AnyAmd64, AnyArm64Tgz, LinuxA64, AnyWindows, <<"*">>, <<>>}

\* fnmatch.fnmatch(name, pattern) on a POSIX host (normcase keeps the case):
\* "*" matches any run of characters, "?" any one character, every other
\* character of these patterns itself.
RECURSIVE fnmatch(_, _)
fnmatch(name, pattern) ==
    IF pattern = <<>> THEN name = <<>>
    ELSE IF Head(pattern) = "*"
    THEN \/ fnmatch(name, Tail(pattern))
         \/ name # <<>> /\ fnmatch(Tail(name), pattern)
    ELSE /\ name # <<>>
         /\ Head(pattern) = "?" \/ Head(pattern) = Head(name)
         /\ fnmatch(Tail(name), Tail(pattern))

\* install._match_assets_by_pattern: the assets whose name matches, in the
\* order of the release.
_match_assets_by_pattern(assets, pattern) ==
    SelectSeq(assets, LAMBDA a : fnmatch(a, pattern))

\* The outcome of an asset selection: the asset returned, or the GhrelError
\* raised with its message and the names it lists.
Selected(asset) ==
    [raised |-> None, message |-> "", asset |-> asset, names |-> <<>>]
SelectError(message, names) ==
    [raised |-> "GhrelError", message |-> message, asset |-> <<>>,
     names |-> names]

\* _require_single_match that settles for the first of several matches.
_require_first_match(matches, pattern) ==
    IF matches = <<>>
    THEN SelectError(IF pattern # <<>> THEN "No assets match pattern"
                     ELSE "No assets match platform", <<>>)
    ELSE Selected(matches[1])

\* install._require_single_match; _format_asset_matches lists every match.
_require_single_match(matches, pattern) ==
    IF matches = <<>>
    THEN SelectError(IF pattern # <<>> THEN "No assets match pattern"
                     ELSE "No assets match platform", <<>>)
    ELSE IF Len(matches) > 1
    THEN SelectError(IF pattern # <<>> THEN "Multiple assets match pattern"
                     ELSE "Multiple assets match platform", matches)
    ELSE Selected(matches[1])

\* install._select_asset_by_pattern
_select_asset_by_pattern(assets, pattern) ==
    _require_single_match(_match_assets_by_pattern(assets, pattern), pattern)

\* The assets of a release: at most MaxAssets, no two of the same name.
Releases ==
    {a \in SeqsUpTo(AssetNames, MaxAssets) :
        \A k, l \in 1..Len(a) : a[k] = a[l] => k = l}

\* The calls _select_asset_by_pattern(release, package, pattern).
SelectByPatternCalls ==
    {[op |-> "_select_asset_by_pattern", assets |-> a, pattern |-> p,
      raised |-> Pending, message |-> "", asset |-> <<>>, names |-> <<>>] :
        a \in Releases, p \in Patterns}

SelectByPatternCall ==
    /\ fn.op = "_select_asset_by_pattern"
    /\ fn.raised = Pending
    /\ LET r == _select_asset_by_pattern(fn.assets, fn.pattern)
       IN fn' = [fn EXCEPT !.raised = r.raised, !.message = r.message,
                           !.asset = r.asset, !.names = r.names]
    /\ UNCHANGED run_vars

\* platform.get_os and platform.get_arch return one of these.
OsNames == {"linux", "darwin"}
Archs == {"x86_64", "arm64"}

\* platform.get_os_keys: the filename keys of an operating system.
get_os_keys(os_name) ==
    IF os_name = "darwin"
    THEN {<<"d","a","r","w","i","n">>, <<"m","a","c","o","s">>,
          <<"m","a","c">>, <<"o","s","x">>}
    ELSE {<<"l","i","n","u","x">>}

\* platform.get_arch_keys: the filename keys of an architecture.
get_arch_keys(arch) ==
    IF arch = "arm64"
    THEN {<<"a","r","m","6","4">>, <<"a","a","r","c","h","6","4">>}
    ELSE {<<"x","8","6","_","6","4">>, <<"a","m","d","6","4">>,
          <<"x","6","4">>}

\* The key of the asset and binary dicts for a platform, "linux-x86_64".
get_platform_key(os_name, arch) == <<os_name, arch>>

\* The asset dicts of a package file: platform key to glob pattern.
AssetDicts ==
    UNION {[keys -> {AnyAmd64, AnyLinux}] :
              keys \in SUBSET {<<"linux", "x86_64">>, <<"linux", "arm64">>}}

\* The outcome of install._get_platform_pattern: the pattern of the key, or
\* the GhrelError of an empty dict or of a dict without the key.
_get_platform_pattern(value, platform_key) ==
    IF DOMAIN value = {}
    THEN [raised |-> "GhrelError",
          message |-> "Platform not found in empty asset dict",
          pattern |-> <<>>]
    ELSE IF platform_key \in DOMAIN value
    THEN [raised |-> None, message |-> "", pattern |-> value[platform_key]]
    ELSE [raised |-> "GhrelError",
          message |-> "Platform not found in asset dict", pattern |-> <<>>]

\* str.lower of the characters asset names are written in.
Lower(name) ==
    [k \in 1..Len(name) |->
        CASE name[k] = "T" -> "t" [] name[k] = "L" -> "l" [] OTHER -> name[k]]

\* token in name
Contains(name, token) ==
    \E k \in 1..(Len(name) - Len(token) + 1) :
        SubSeq(name, k, k + Len(token) - 1) = token

\* An asset a platform inference would pick: its lower-cased name holds a
\* key of the operating system and a key of the architecture.
Candidate(name, os_name, arch) ==
    /\ \E key \in get_os_keys(os_name) : Contains(Lower(name), key)
    /\ \E key \in get_arch_keys(arch) : Contains(Lower(name), key)

\* select_asset that falls back to the platform keys when the dict holds no
\* pattern for the platform.
select_asset_inferring(value, assets, os_name, arch) ==
    LET found == _get_platform_pattern(value, get_platform_key(os_name, arch))
    IN IF found.raised # None
       THEN _require_single_match(
                SelectSeq(assets, LAMBDA a : Candidate(a, os_name, arch)),
                <<>>)
       ELSE _select_asset_by_pattern(assets, found.pattern)

\* install.select_asset: the pattern of the platform key, then the single
\* asset matching it; without a pattern the GhrelError of the lookup.
select_asset(value, assets, os_name, arch) ==
    LET found == _get_platform_pattern(value, get_platform_key(os_name, arch))
    IN IF found.raised # None
       THEN SelectError(found.message, <<>>)
       ELSE _select_asset_by_pattern(assets, found.pattern)

\* The calls select_asset(package, release, os_name, arch).
SelectAssetCalls ==
    {[op |-> "select_asset", value |-> v, assets |-> a, os_name |-> o,
      arch |-> m, raised |-> Pending, message |-> "", asset |-> <<>>,
      names |-> <<>>] :
        v \in AssetDicts, a \in Releases, o \in OsNames, m \in Archs}

SelectAssetCall ==
    /\ fn.op = "select_asset"
    /\ fn.raised = Pending
    /\ LET r == select_asset(fn.value, fn.assets, fn.os_name, fn.arch)
       IN fn' = [fn EXCEPT !.raised = r.raised, !.message = r.message,
                           !.asset = r.asset, !.names = r.names]
    /\ UNCHANGED run_vars

\* Files an extracted archive can hold, as paths below the extraction
\* directory; every proper prefix of a file's path is a directory.
TreeFiles ==
    {<<"tool">>, <<"bin", "tool">>, <<"alt", "tool">>, <<"bin", "other">>,
     <<"tool", "other">>}

\* Path.exists() below the extraction directory of the tree `files`.
Exists(files, path) ==
    \E f \in files :
        Len(f) >= Len(path) /\ SubSeq(f, 1, Len(path)) = path

\* The trees an extraction leaves: no path is both a file and a directory.
Trees ==
    {files \in SUBSET TreeFiles :
        \A f \in files : ~Exists(files \ {f}, f)}

\* extracted_dpath.rglob(binary) filtered by is_file().
rglob_files(files, binary) == {f \in files : f[Len(f)] = binary}

\* The outcome of _find_binary: the path returned, or the GhrelError raised
\* with the matches or the archive entries its text lists.
FoundBinary(path) ==
    [raised |-> None, message |-> "", path |-> path, matches |-> {},
     entries |-> {}]
FindError(message, matches, entries) ==
    [raised |-> "GhrelError", message |-> message, path |-> <<>>,
     matches |-> matches, entries |-> entries]

\* install._find_binary for a bare filename (no wildcard, no separator):
\* the root candidate if it exists, else the only file of that name.
_find_binary(files, binary) ==
    IF Exists(files, <<binary>>) THEN FoundBinary(<<binary>>)
    ELSE LET matches == rglob_files(files, binary)
         IN IF matches = {}
            THEN FindError("not found in archive", {}, files)
            ELSE IF Cardinality(matches) > 1
            THEN FindError("matched multiple files", matches, {})
            ELSE FoundBinary(CHOOSE f \in matches : TRUE)

\* The calls _find_binary(extracted_dpath, binary, archive_fpath).
FindBinaryCalls ==
    {[op |-> "_find_binary", files |-> t, binary |-> b, raised |-> Pending,
      message |-> "", path |-> <<>>, matches |-> {}, entries |-> {}] :
        t \in Trees, b \in {"tool", "other", "absent"}}

FindBinaryCall ==
    /\ fn.op = "_find_binary"
    /\ fn.raised = Pending
    /\ LET r == _find_binary(fn.files, fn.binary)
       IN fn' = [fn EXCEPT !.raised = r.raised, !.message = r.message,
                           !.path = r.path, !.matches = r.matches,
                           !.entries = r.entries]
    /\ UNCHANGED run_vars

\* A hook of a package file (ghrel_post_install, ghrel_verify): absent, or
\* a callable that returns, raises an Exception with a message (a list of
\* words, empty for `raise AssertionError()`), or raises SystemExit, which
\* is no Exception.
Hook(present, raises, message) ==
    [present |-> present, raises |-> raises, message |-> message]
NoHook == Hook(FALSE, None, <<>>)
Hooks ==
    {NoHook, Hook(TRUE, None, <<>>), Hook(TRUE, "Exception", <<>>),
     Hook(TRUE, "Exception", <<"boom">>), Hook(TRUE, "SystemExit", <<>>)}

\* The value a hook runner hands back: the error text, <<>> for None; and
\* what escapes it.
HookResult(text, escaped) == [text |-> text, escaped |-> escaped]

\* A hook runner that returns str(err) without a prefix.
_run_hook_bare(hook, prefix) ==
    IF ~hook.present \/ hook.raises = None THEN HookResult(<<>>, None)
    ELSE IF hook.raises = "Exception" THEN HookResult(hook.message, None)
    ELSE HookResult(<<>>, hook.raises)

\* cli._run_post_install and cli._run_verify: None without a hook or when
\* it returns, f"{prefix}{err}" when it raises an Exception.
_run_hook(hook, prefix) ==
    IF ~hook.present \/ hook.raises = None THEN HookResult(<<>>, None)
    ELSE IF hook.raises = "Exception"
    THEN HookResult(<<prefix>> \o hook.message, None)
    ELSE HookResult(<<>>, hook.raises)

\* `if post_install_err:` -- None and the empty string are false.
Truthy(text) == text # <<>>

\* The loop body with _run_verify inside the with block.
After_verify_inside(at) ==
    CASE at = "plan" -> "install"
      [] at = "install" -> "post_install"
      [] at = "post_install" -> "verify"
      [] at = "verify" -> "cleanup"
      [] at = "cleanup" -> "record"
      [] OTHER -> "done"

\* The order of the loop body of run_sync: the plan, install and
\* post_install inside `with tempfile.TemporaryDirectory()`, the end of the
\* with block, _run_verify, then the state entry.
After(at) ==
    CASE at = "plan" -> "install"
      [] at = "install" -> "post_install"
      [] at = "post_install" -> "cleanup"
      [] at = "cleanup" -> "verify"
      [] at = "verify" -> "record"
      [] OTHER -> "done"

\* One pass through the loop body for a package: whether the run is a dry
\* run, the action of the plan, whether the asset is an archive, how
\* install_release_asset ends, and the two hooks.  temp and extracted say whether the temporary directory
\* and the extracted directory exist, installed whether the binary is at
\* its install path, written whether write_state has run; calls lists the
\* hooks called with what each found.
IterationCalls ==
    {[op |-> "iteration", dry_run |-> d, action |-> c, archive |-> a,
      install |-> o, post_install |-> h, verify |-> v, at |-> "plan",
      temp |-> FALSE, extracted |-> FALSE, installed |-> FALSE,
      written |-> FALSE, calls |-> <<>>, failures |-> <<>>,
      raised |-> None] :
        d \in BOOLEAN, c \in {"install", "up_to_date"}, a \in BOOLEAN,
        o \in {"ok", "GhrelError", "Exception"}, h \in Hooks, v \in Hooks}

\* What a hook finds when it is called at position `at`.
HookCall(at) ==
    [hook |-> at, temp |-> fn.temp, extracted |-> fn.extracted,
     installed |-> fn.installed]

\* failures.append(...); continue -- or an exception that is not caught:
\* either way the with block, if still open, removes the directory.
LeaveIteration(calls, failure, escaped) ==
    fn' = [fn EXCEPT !.at = "done", !.temp = FALSE, !.extracted = FALSE,
                     !.calls = calls,
                     !.failures = IF failure = <<>> THEN @
                                  ELSE Append(@, failure),
                     !.raised = escaped]

\* if cmd.dry_run: ... continue; if plan.action == "up_to_date": ...
\* continue -- the plan is printed and the pass is over.
IterPlan ==
    /\ fn.op = "iteration"
    /\ fn.at = "plan"
    /\ IF Skips(fn.dry_run, fn.action)
       THEN LeaveIteration(fn.calls, <<>>, None)
       ELSE fn' = [fn EXCEPT !.at = After(fn.at)]
    /\ UNCHANGED run_vars

\* with tempfile.TemporaryDirectory(): install_release_asset(...)
IterInstall ==
    /\ fn.op = "iteration"
    /\ fn.at = "install"
    /\ IF fn.install = "ok"
       THEN fn' = [fn EXCEPT !.at = After(fn.at), !.temp = TRUE,
                             !.extracted = fn.archive, !.installed = TRUE]
       ELSE LeaveIteration(fn.calls, <<fn.install>>, None)
    /\ UNCHANGED run_vars

\* The hook of position `at` is run and its result tested.
IterHook(at, prefix) ==
    /\ fn.op = "iteration"
    /\ fn.at = at
    /\ LET hook == fn[at]
           result == _run_hook(hook, prefix)
           called == IF hook.present
                     THEN Append(fn.calls, HookCall(at)) ELSE fn.calls
       IN IF result.escaped # None
          THEN LeaveIteration(called, <<>>, result.escaped)
          ELSE IF Truthy(result.text)
          THEN LeaveIteration(called, result.text, None)
          ELSE fn' = [fn EXCEPT !.at = After(fn.at), !.calls = called]
    /\ UNCHANGED run_vars

\* post_install_err = _run_post_install(...); if post_install_err: ...
IterPostInstall == IterHook("post_install", "post_install failed: ")

\* The with block ends: the temporary directory is removed.
IterCleanup ==
    /\ fn.op = "iteration"
    /\ fn.at = "cleanup"
    /\ fn' = [fn EXCEPT !.at = After(fn.at), !.temp = FALSE,
                        !.extracted = FALSE]
    /\ UNCHANGED run_vars

\* verify_err = _run_verify(...); if verify_err: ...
IterVerify == IterHook("verify", "verify failed: ")

\* state_packages[name] = ...; write_state(...)
IterRecord ==
    /\ fn.op = "iteration"
    /\ fn.at = "record"
    /\ fn' = [fn EXCEPT !.at = After(fn.at), !.written = TRUE]
    /\ UNCHANGED run_vars

\* A pathlib.Path: absolute or not, and its components.
Path(absolute, parts) == [absolute |-> absolute, parts |-> parts]

\* str(path) that leaves the root out.
str_relative(path) ==
    IF path.parts = <<>> THEN <<".">>
    ELSE [k \in 1..(2 * Len(path.parts) - 1) |->
             IF k % 2 = 1 THEN path.parts[(k + 1) \div 2] ELSE "/"]

\* str(path), as the list of its components and separators: "/bin/tool" is
\* <<"/", "bin", "/", "tool">>, the empty relative path is ".".
str(path) ==
    IF path.parts = <<>>
    THEN IF path.absolute THEN <<"/">> ELSE <<".">>
    ELSE (IF path.absolute THEN <<"/">> ELSE <<>>) \o
         [k \in 1..(2 * Len(path.parts) - 1) |->
             IF k % 2 = 1 THEN path.parts[(k + 1) \div 2] ELSE "/"]

\* pathlib.Path(text): a leading separator makes it absolute; repeated
\* separators and "." components are dropped.
PathOf(text) ==
    Path(text # <<>> /\ text[1] = "/",
         SelectSeq(text, LAMBDA c : c \notin {"/", "."}))

\* state.PackageState with its four fields.
FullState(version, checksum, installed_at, binary_fpath) ==
    [version |-> version, checksum |-> checksum,
     installed_at |-> installed_at, binary_fpath |-> binary_fpath]

\* The keys read_state requires of an entry, in the order it tests them.
required_keys == <<"version", "checksum", "installed_at", "binary_path">>

\* A JSON value found as a package entry: an object with some keys, or a
\* value of another type.
JsonObject(fields) == [type |-> "object", fields |-> fields]
JsonOther(type) == [type |-> type, fields |-> <<>>]

\* The entry write_state builds for a PackageState.
EntryOf(pkg) ==
    JsonObject([key \in Range(required_keys) |->
        CASE key = "version" -> <<pkg.version>>
          [] key = "checksum" -> <<pkg.checksum>>
          [] key = "installed_at" -> <<pkg.installed_at>>
          [] OTHER -> str(pkg.binary_fpath)])

\* The text of state.json: not JSON at all, or the JSON document whose
\* "packages" object holds the entries in this order.  json.dump and
\* json.loads keep an object of strings as it is.
Garbage == [json |-> FALSE, entries |-> <<>>]
Document(entries) == [json |-> TRUE, entries |-> entries]

\* The data and json.dump of write_state: one entry per package.
write_state_text(state) ==
    Document([k \in 1..Len(Sorted(DOMAIN state)) |->
        [name |-> Sorted(DOMAIN state)[k],
         value |-> EntryOf(state[Sorted(DOMAIN state)[k]])]])

\* `key not in pkg_data`: a TypeError for null, a number or a boolean, a
\* membership test for an object, a string or an array.
Lacks(value, key) ==
    value.type # "object" \/ key \notin DOMAIN value.fields

\* The result of read_state: the State, or what it raised and, for a
\* StateError about an entry, the package and key it names.
ReadResult(raised, name, key, state) ==
    [raised |-> raised, name |-> name, key |-> key, state |-> state]

\* The loop of read_state over data["packages"].items() from entry k on,
\* with the packages parsed so far.
RECURSIVE read_entries(_, _, _)
read_entries(entries, k, parsed) ==
    IF k > Len(entries) THEN ReadResult(None, "", "", parsed)
    ELSE LET name == entries[k].name
             value == entries[k].value
             missing == SelectSeq(required_keys, LAMBDA key : Lacks(value, key))
         IN IF value.type \in {"null", "number"}
            THEN ReadResult("TypeError", "", "", EmptyDict)
            ELSE IF missing # <<>>
            THEN ReadResult("StateError", name, missing[1], EmptyDict)
            ELSE read_entries(entries, k + 1,
                     Put(parsed, name,
                         FullState(value.fields["version"][1],
                                   value.fields["checksum"][1],
                                   value.fields["installed_at"][1],
                                   PathOf(value.fields["binary_path"]))))

\* state.read_state on a state.json that is missing or holds `text`.
read_state_text(exists, text) ==
    IF ~exists THEN ReadResult(None, "", "", EmptyDict)
    ELSE IF ~text.json THEN ReadResult("StateError", "", "", EmptyDict)
    ELSE read_entries(text.entries, 1, EmptyDict)

\* Paths a PackageState records.
StatePaths ==
    {Path(TRUE, <<"bin", "tool">>), Path(FALSE, <<"bin", "tool">>),
     Path(TRUE, <<>>), Path(FALSE, <<>>)}

\* The State objects write_state is handed.
States ==
    UNION {[names -> {FullState(v, "sha256:0", "t", f) :
                         v \in {"v1", "v2"}, f \in StatePaths}] :
              names \in SUBSET Names}

\* write_state(state) followed by read_state().
RoundTripCalls ==
    {[op |-> "round_trip", state |-> s, at |-> "write", text |-> Garbage,
      read |-> ReadResult(Pending, "", "", EmptyDict)] : s \in States}

RoundTripWrite ==
    /\ fn.op = "round_trip"
    /\ fn.at = "write"
    /\ fn' = [fn EXCEPT !.at = "read", !.text = write_state_text(fn.state)]
    /\ UNCHANGED run_vars

RoundTripRead ==
    /\ fn.op = "round_trip"
    /\ fn.at = "read"
    /\ fn' = [fn EXCEPT !.at = "done", !.read = read_state_text(TRUE, fn.text)]
    /\ UNCHANGED run_vars

\* The values a package entry of a hand-edited or damaged state.json can
\* have: an object with any of the required keys, or no object at all.
EntryValues ==
    {JsonObject([key \in keys |->
         IF key = "binary_path" THEN <<"/", "bin", "/", "tool">> ELSE <<"v1">>]) :
        keys \in SUBSET Range(required_keys)}
    \cup {JsonOther(type) : type \in {"null", "number", "string", "array"}}

\* The documents read_state can find: JSON objects with up to two entries
\* in either order, and text that is no JSON.
Documents ==
    {Garbage, Document(<<>>)}
    \cup {Document(<<[name |-> n, value |-> v]>>) :
             n \in Names, v \in EntryValues}
    \cup UNION {{Document(<<[name |-> n, value |-> v], [name |-> m, value |-> w]>>) :
                    m \in Names \ {n}, v \in EntryValues, w \in EntryValues} :
                n \in Names}

\* read_state() with state.json missing or holding one of the documents.
ReadStateTextCalls ==
    {[op |-> "read_state", exists |-> e, text |-> t, at |-> "call",
      read |-> ReadResult(Pending, "", "", EmptyDict)] :
        e \in BOOLEAN, t \in Documents}

ReadStateTextCall ==
    /\ fn.op = "read_state"
    /\ fn.at = "call"
    /\ fn' = [fn EXCEPT !.at = "done",
                        !.read = read_state_text(fn.exists, fn.text)]
    /\ UNCHANGED run_vars

\* The tokens a GitHubClient is constructed with: None, the empty text of
\* an empty GITHUB_TOKEN, and a token.
Tokens == {None, "", "ghp"}

\* `if self._token:`.
HasToken(token) == token \notin {None, ""}

\* The status codes a response carries.
Statuses == {200, 304, 399, 400, 401, 403, 404, 418, 500}

\* What one session.get does: raise requests.RequestException or return a
\* response with a status code.
Transport == [exception |-> TRUE, status |-> 0]
Response(status) == [exception |-> FALSE, status |-> status]
Outcomes == {Transport} \cup {Response(s) : s \in Statuses}

\* How a call of _request_raw ends: a response returned, or an error with
\* the parts of its message.
Returned(status) ==
    [raised |-> None, message |-> "", hint |-> "", status |-> status, url |-> ""]
Raised(kind, message, hint, status, url) ==
    [raised |-> kind, message |-> message, hint |-> hint, status |-> status,
     url |-> url]
NetworkError == Raised("GhrelError", "Network error contacting GitHub", "", 0, "")

\* A handler of 401 and 403 that does not look at the token.
handle_status_any_auth(token, status, url) ==
    IF status = 404
    THEN Raised("NotFoundError", "Resource not found", "", 0, url)
    ELSE IF status \in {401, 403}
    THEN Raised("AuthError", "GitHub authentication failed.",
                "Check your GITHUB_TOKEN.", 0, "")
    ELSE IF status >= 400
    THEN Raised("GhrelError", "GitHub API error", "", status, url)
    ELSE Returned(status)

\* The tests _request_raw makes on response.status_code.
handle_status(token, status, url) ==
    IF status = 404
    THEN Raised("NotFoundError", "Resource not found", "", 0, url)
    ELSE IF status \in {401, 403}
    THEN IF HasToken(token)
         THEN Raised("AuthError", "GitHub authentication failed.",
                     "Check your GITHUB_TOKEN.", 0, "")
         ELSE Raised("GhrelError", "GitHub API rate limit exceeded.",
                     "Set GITHUB_TOKEN to increase the limit.", 0, "")
    ELSE IF status >= 400
    THEN Raised("GhrelError", "GitHub API error", "", status, url)
    ELSE Returned(status)

\* A loop that sleeps and goes on after every transport failure.
retries_always(attempt) == TRUE

\* `if attempt < 2`: a transport failure of this attempt is retried.
retries(attempt) == attempt < 2

\* The attempts of `for attempt in range(3)`.
MaxAttempts == 3

\* _request_raw(url) of a client with each token.
RequestCalls ==
    {[op |-> "_request_raw", token |-> t, url |-> "url", at |-> "loop",
      attempt |-> 0, seen |-> <<>>, sleeps |-> <<>>,
      result |-> Returned(0)] : t \in Tokens}

\* One pass of the loop of _request_raw, or the statements after the loop
\* once range(3) is used up.
RequestAttempt(outcome) ==
    /\ fn.op = "_request_raw"
    /\ fn.at = "loop"
    /\ IF fn.attempt >= MaxAttempts
       THEN fn' = [fn EXCEPT !.at = "done", !.result = NetworkError]
       ELSE IF outcome.exception
       THEN IF retries(fn.attempt)
            THEN fn' = [fn EXCEPT !.attempt = fn.attempt + 1,
                                  !.seen = Append(fn.seen, outcome),
                                  !.sleeps = Append(fn.sleeps, 2 ^ fn.attempt)]
            ELSE fn' = [fn EXCEPT !.at = "done",
                                  !.seen = Append(fn.seen, outcome),
                                  !.result = NetworkError]
       ELSE fn' = [fn EXCEPT !.at = "done",
                             !.seen = Append(fn.seen, outcome),
                             !.result = handle_status(fn.token, outcome.status,
                                                      fn.url)]
    /\ UNCHANGED run_vars

\* The repositories and tag strings a client is asked about; a tag can be
\* named "latest".
Repos == {"o/r"}
TagNames == {"v1", "latest"}

\* github.Release: its tag and the names of its assets.
Release(tag, assets) == [tag |-> tag, assets |-> assets]
NoRelease == Release("", <<>>)

\* What an endpoint answers through _request_json and _parse_release: a
\* release, or one of the errors of _request_raw.
Answer(raised, found) == [raised |-> raised, release |-> found]
LatestAnswers ==
    {Answer(None, Release(t, a)) : t \in {"v1", "v2"}, a \in {<<>>, <<"tool">>}}
    \cup {Answer(e, NoRelease) : e \in {"NotFoundError", "GhrelError"}}
TagAnswers(tag) ==
    {Answer(None, Release(tag, a)) : a \in {<<>>, <<"tool">>}}
    \cup {Answer(e, NoRelease) : e \in {"NotFoundError", "GhrelError"}}

\* The URLs requested.
LatestUrl(pkg) == <<"releases/latest", pkg>>
TagUrl(pkg, tag) == <<"releases/tags", pkg, tag>>
TagsUrl(pkg) == <<"releases", pkg>>

\* One finished call of the client: the method and its arguments, the URLs
\* it requested, what it raised or returned, and the release cache it left.
ClientCall(method, pkg, tag, requests, raised, found, cache) ==
    [method |-> method, pkg |-> pkg, tag |-> tag, requests |-> requests,
     raised |-> raised, release |-> found, cache |-> cache]

\* The greatest number of calls made on one client.
MaxCalls == 3

\* A GitHubClient after construction: both caches empty, no call made.
ClientCalls ==
    {[op |-> "client", release_cache |-> EmptyDict, tags_cache |-> {},
      log |-> <<>>]}

\* A cache key that keeps the two methods apart.
latest_key_own(pkg) == <<pkg, "latest", "latest">>

\* cache_key of get_latest_release.
latest_key(pkg) == <<pkg, "latest">>

\* cache_key of get_release_by_tag.
tag_key(pkg, tag) == <<pkg, tag>>

\* Return a call's result into the log, with the caches it leaves.
Finish(method, pkg, tag, requests, raised, found, cache, tags) ==
    fn' = [fn EXCEPT !.release_cache = cache,
                     !.tags_cache = tags,
                     !.log = Append(fn.log, ClientCall(method, pkg, tag, requests,
                                                       raised, found, cache))]

\* GitHubClient.get_latest_release(pkg) with the endpoint's answer.
GetLatestRelease(pkg, answer) ==
    /\ fn.op = "client"
    /\ Len(fn.log) < MaxCalls
    /\ LET key == latest_key(pkg)
       IN IF key \in DOMAIN fn.release_cache
          THEN Finish("get_latest_release", pkg, "latest", <<>>, None,
                      fn.release_cache[key], fn.release_cache, fn.tags_cache)
          ELSE IF answer.raised # None
          THEN Finish("get_latest_release", pkg, "latest", <<LatestUrl(pkg)>>,
                      answer.raised, NoRelease, fn.release_cache, fn.tags_cache)
          ELSE Finish("get_latest_release", pkg, "latest", <<LatestUrl(pkg)>>,
                      None, answer.release,
                      Put(fn.release_cache, key, answer.release), fn.tags_cache)
    /\ UNCHANGED run_vars

\* GitHubClient.get_release_by_tag(pkg, tag) with the endpoint's answer
\* and, after a 404, whether the request of get_recent_tags succeeds.
GetReleaseByTag(pkg, tag, answer, tags_ok) ==
    /\ fn.op = "client"
    /\ Len(fn.log) < MaxCalls
    /\ LET key == tag_key(pkg, tag)
       IN IF key \in DOMAIN fn.release_cache
          THEN Finish("get_release_by_tag", pkg, tag, <<>>, None,
                      fn.release_cache[key], fn.release_cache, fn.tags_cache)
          ELSE IF answer.raised = "NotFoundError"
          THEN IF pkg \in fn.tags_cache
               THEN Finish("get_release_by_tag", pkg, tag, <<TagUrl(pkg, tag)>>,
                           "GhrelError", NoRelease, fn.release_cache, fn.tags_cache)
               ELSE Finish("get_release_by_tag", pkg, tag,
                           <<TagUrl(pkg, tag), TagsUrl(pkg)>>,
                           "GhrelError", NoRelease, fn.release_cache,
                           IF tags_ok THEN fn.tags_cache \cup {pkg}
                           ELSE fn.tags_cache)
          ELSE IF answer.raised # None
          THEN Finish("get_release_by_tag", pkg, tag, <<TagUrl(pkg, tag)>>,
                      answer.raised, NoRelease, fn.release_cache, fn.tags_cache)
          ELSE Finish("get_release_by_tag", pkg, tag, <<TagUrl(pkg, tag)>>,
                      None, answer.release,
                      Put(fn.release_cache, key, answer.release), fn.tags_cache)
    /\ UNCHANGED run_vars

\* pathlib.PurePosixPath(binary).name: the last component.
PathName(path) == IF path = <<>> THEN "" ELSE path[Len(path)]

\* _load_package: an archive package without install_as gets the basename
\* of its binary as install_as.
default_install_as(archive, binary, install_as) ==
    IF archive /\ install_as = None THEN PathName(binary) ELSE install_as

\* The PackageConfig objects get_install_as is handed: built directly, with
\* any fields, or by _load_package; binary <<>> stands for no binary.
PackageConfigs ==
    {[name |-> "tool", loaded |-> FALSE, archive |-> ar, binary |-> b,
      install_as |-> ia] :
        ar \in BOOLEAN, b \in {<<>>, <<"bin", "rg">>, <<"tool">>},
        ia \in {None, "", "tool2"}}
    \cup {[name |-> "tool", loaded |-> TRUE, archive |-> ar, binary |-> b,
           install_as |-> default_install_as(ar, b, ia)] :
             ar \in BOOLEAN, b \in {<<"bin", "rg">>, <<"tool">>},
             ia \in {None, "tool2"}}

\* A get_install_as that falls back to the name of the asset.
get_install_as_asset(package, asset) ==
    IF package.install_as \notin {None, ""} THEN package.install_as ELSE asset

\* A get_install_as that falls back to the binary's basename for an
\* archive package and to the name of the asset otherwise.
get_install_as_basename(package, asset) ==
    IF package.install_as \notin {None, ""} THEN package.install_as
    ELSE IF package.archive /\ package.binary # <<>>
    THEN PathName(package.binary)
    ELSE asset

\* install.get_install_as: install_as when it is set, else the package name.
get_install_as(package, asset) ==
    IF package.install_as \notin {None, ""} THEN package.install_as
    ELSE package.name

\* The calls get_install_as(package, asset).
InstallAsCalls ==
    {[op |-> "get_install_as", package |-> p, asset |-> a, result |-> Pending] :
        p \in PackageConfigs, a \in {"tool-linux-amd64", "rg.tar.gz"}}

InstallAsCall ==
    /\ fn.op = "get_install_as"
    /\ fn.result = Pending
    /\ fn' = [fn EXCEPT !.result = get_install_as(fn.package, fn.asset)]
    /\ UNCHANGED run_vars

\* The longest file hashed, in bytes, and the size of one read, standing
\* for the 1024 * 1024 bytes of fd.read: files of 0 to 3 chunks.
MaxContent == 5
ChunkSize == 2

\* hashlib's hexdigest of the bytes fed to a hasher: the reference SHA-256
\* digest in lowercase hex, one value per byte string.
hexdigest(fed) == [sha256 |-> fed]

\* fd.read(1024 * 1024) at offset pos: the next chunk, empty at the end.
read_chunk(content, pos) ==
    SubSeq(content, pos + 1,
           IF pos + ChunkSize < Len(content) THEN pos + ChunkSize ELSE Len(content))

\* A loop that stops after the first chunk.
more_chunks_once(chunk, pos) == chunk # <<>> /\ pos = 0

\* `if not chunk: break`.
more_chunks(chunk, pos) == chunk # <<>>

\* The calls compute_sha256(binary_fpath) over every content.
Sha256Calls ==
    {[op |-> "compute_sha256", content |-> c, pos |-> 0, fed |-> <<>>,
      reads |-> 0, result |-> <<>>] :
        c \in UNION {[1..n -> {0, 1}] : n \in 0..MaxContent}}

\* One pass of the read loop: hasher.update(chunk), or the return after
\* the empty read.
Sha256Read ==
    /\ fn.op = "compute_sha256"
    /\ fn.result = <<>>
    /\ LET chunk == read_chunk(fn.content, fn.pos)
       IN IF more_chunks(chunk, fn.pos)
          THEN fn' = [fn EXCEPT !.pos = fn.pos + Len(chunk),
                                !.fed = fn.fed \o chunk,
                                !.reads = fn.reads + 1]
          ELSE fn' = [fn EXCEPT !.reads = fn.reads + 1,
                                !.result = <<"sha256:", hexdigest(fn.fed)>>]
    /\ UNCHANGED run_vars

\* A report that lists every entry of the state.
prune_report_all(state, package_names) == DOMAIN state

\* run_prune --dry-run: the names it prints as "Would remove".
prune_report(state, package_names) ==
    {name \in DOMAIN state : name \notin package_names}

\* run_prune under the lock: the orphans' binaries unlinked, their entries
\* dropped, and the remaining entries written if there was an orphan.
prune_sweep(state, package_names, disk) ==
    LET orphans == Orphans(state, package_names)
    IN [removed |-> orphans,
        disk |-> [f \in Paths |->
                     IF \E n \in orphans : state[n].binary_fpath = f
                     THEN Absent ELSE disk[f]],
        state |-> Without(state, orphans),
        written |-> orphans # {}]

\* The calls run_prune(cmd): the packages directory (present or not, with
\* these package files), state.json, the files on disk, and the flag.
RunPruneCalls ==
    {[op |-> "run_prune", dry_run |-> d, dir |-> dir, package_names |-> pn,
      state |-> st, disk |-> dk, at |-> "call", raised |-> None,
      locked |-> FALSE, written |-> FALSE, reported |-> {},
      state_after |-> st, disk_after |-> dk] :
        d \in BOOLEAN, dir \in BOOLEAN, pn \in SUBSET Names,
        st \in UNION {[ns -> {PackageState(1, compute_sha256(Junk), f) : f \in Paths}] :
                         ns \in SUBSET Names},
        dk \in [Paths -> {Absent, Junk}]}

\* run_prune from its call to its return.
RunPruneCall ==
    /\ fn.op = "run_prune"
    /\ fn.at = "call"
    /\ IF ~fn.dir
       THEN fn' = [fn EXCEPT !.at = "done", !.raised = "ConfigError"]
       ELSE IF fn.dry_run
       THEN fn' = [fn EXCEPT !.at = "done",
                             !.reported = prune_report(fn.state, fn.package_names)]
       ELSE LET swept == prune_sweep(fn.state, fn.package_names, fn.disk)
            IN fn' = [fn EXCEPT !.at = "done",
                                !.locked = TRUE,
                                !.reported = swept.removed,
                                !.written = swept.written,
                                !.state_after = swept.state,
                                !.disk_after = swept.disk]
    /\ UNCHANGED run_vars

\* A file on disk in a call of _install_binary: its bytes and whether it
\* is executable; NoFile is a path with nothing at it.
DiskFile(bytes, executable) == [bytes |-> bytes, executable |-> executable]
NoFile == DiskFile("absent", FALSE)

\* A copy made straight to the destination.
tmp_fpath_dest(dest) == dest

\* dest_fpath.with_name(dest_fpath.name + ".tmp").
tmp_fpath(dest) == "tmp"

\* The calls _install_binary(source_fpath, dest_fpath), step by step: what
\* is at the destination and at the temp path before, and the mode of the
\* source file.
InstallStepCalls ==
    {[op |-> "_install_binary_steps", at |-> "copy", raised |-> None,
      source |-> DiskFile("new", x),
      before |-> b,
      files |-> [f \in {"dest", "tmp"} |-> IF f = "dest" THEN b ELSE t]] :
        x \in BOOLEAN,
        b \in {NoFile, DiskFile("old", TRUE), DiskFile("old", FALSE)},
        t \in {NoFile, DiskFile("stale", FALSE)}}

\* shutil.copy opens the target, which creates or truncates it.
InstallCopyOpen ==
    /\ fn.op = "_install_binary_steps"
    /\ fn.at = "copy"
    /\ fn' = [fn EXCEPT !.at = "write",
                        !.files[tmp_fpath("dest")] = DiskFile("empty", FALSE)]
    /\ UNCHANGED run_vars

\* shutil.copy writes the bytes and copies the mode; the copy can come out
\* whole, truncated or corrupted.
InstallCopyWrite(bytes) ==
    /\ fn.op = "_install_binary_steps"
    /\ fn.at = "write"
    /\ fn' = [fn EXCEPT !.at = "compare",
                        !.files[tmp_fpath("dest")] =
                            DiskFile(bytes, fn.source.executable)]
    /\ UNCHANGED run_vars

\* compute_sha256 of both files; GhrelError if they differ.
InstallCompare ==
    /\ fn.op = "_install_binary_steps"
    /\ fn.at = "compare"
    /\ IF fn.files[tmp_fpath("dest")].bytes # fn.source.bytes
       THEN fn' = [fn EXCEPT !.at = "done", !.raised = "GhrelError"]
       ELSE fn' = [fn EXCEPT !.at = "chmod"]
    /\ UNCHANGED run_vars

\* os.chmod(tmp_fpath, 0o755).
InstallChmod ==
    /\ fn.op = "_install_binary_steps"
    /\ fn.at = "chmod"
    /\ fn' = [fn EXCEPT !.at = "replace",
                        !.files[tmp_fpath("dest")].executable = TRUE]
    /\ UNCHANGED run_vars

\* os.replace(tmp_fpath, dest_fpath).
InstallReplace ==
    /\ fn.op = "_install_binary_steps"
    /\ fn.at = "replace"
    /\ fn' = [fn EXCEPT !.at = "done",
                        !.files = IF tmp_fpath("dest") = "dest" THEN fn.files
                                  ELSE [f \in {"dest", "tmp"} |->
                                           IF f = "dest"
                                           THEN fn.files[tmp_fpath("dest")]
                                           ELSE NoFile]]
    /\ UNCHANGED run_vars

\* The `with acquire_lock():` blocks entered one after another.
MaxRounds == 2

\* How the body of a `with acquire_lock():` block is left.
BodyExits == {"normal", "return", "AuthError", "StateError"}

\* A context manager that releases after the yield without try/finally.
releases_normal(exit) == exit \in {"normal", "return"}

\* `try: yield finally: lock.release()`: the lock is released however the
\* body is left.
releases(exit) == TRUE

\* acquire_lock() entered with the lock file present or not and the OS lock
\* free or held by another process.
LockCalls ==
    {[op |-> "acquire_lock", at |-> "enter", round |-> 1, file |-> f,
      holder |-> h, found |-> [file |-> f, holder |-> h], exits |-> <<>>,
      raised |-> None] :
        f \in BOOLEAN, h \in {None, "other"}} \
    {[op |-> "acquire_lock", at |-> "enter", round |-> 1, file |-> FALSE,
      holder |-> "other", found |-> [file |-> FALSE, holder |-> "other"],
      exits |-> <<>>, raised |-> None]}

\* filelock.FileLock(lock_fpath).acquire(timeout=0): the lock file is
\* created if it is missing; LockError if the OS lock is held.
LockAcquire ==
    /\ fn.op = "acquire_lock"
    /\ fn.at = "enter"
    /\ IF fn.holder # None
       THEN fn' = [fn EXCEPT !.at = "refused", !.raised = "LockError",
                             !.found = [file |-> fn.file, holder |-> fn.holder]]
       ELSE fn' = [fn EXCEPT !.at = "body", !.holder = "self", !.file = TRUE,
                             !.raised = None,
                             !.found = [file |-> fn.file, holder |-> fn.holder]]
    /\ UNCHANGED run_vars

\* The body of the with statement runs and is left.
LockBody(exit) ==
    /\ fn.op = "acquire_lock"
    /\ fn.at = "body"
    /\ fn' = [fn EXCEPT !.at = "finally", !.exits = Append(fn.exits, exit)]
    /\ UNCHANGED run_vars

\* The finally clause: lock.release() drops the OS lock and leaves the
\* lock file; an exception of the body goes on to the caller.
LockRelease ==
    /\ fn.op = "acquire_lock"
    /\ fn.at = "finally"
    /\ LET exit == fn.exits[Len(fn.exits)]
       IN fn' = [fn EXCEPT !.at = "left",
                           !.holder = IF releases(exit) THEN None ELSE fn.holder,
                           !.raised = IF exit \in {"normal", "return"}
                                      THEN None ELSE exit]
    /\ UNCHANGED run_vars

\* A later invocation comes to its own `with acquire_lock():`; another
\* process that held the lock still holds it or has finished.
LockAgain(other_done) ==
    /\ fn.op = "acquire_lock"
    /\ fn.at \in {"left", "refused"}
    /\ fn.round < MaxRounds
    /\ fn' = [fn EXCEPT !.at = "enter", !.round = fn.round + 1,
                        !.holder = IF fn.holder = "other" /\ other_done
                                   THEN None ELSE fn.holder]
    /\ UNCHANGED run_vars

\* FN-CALLS
Calls ==
    InstallBinaryCalls \cup WriteStateCalls \cup ExtractCalls
    \cup SelectByPatternCalls \cup SelectAssetCalls
    \cup FindBinaryCalls \cup IterationCalls
    \cup RoundTripCalls \cup ReadStateTextCalls
    \cup RequestCalls \cup ClientCalls
    \cup InstallAsCalls \cup Sha256Calls
    \cup RunPruneCalls \cup InstallStepCalls
    \cup LockCalls

InitFn ==
    /\ pkgfiles = EmptyDict
    /\ pkgdir = TRUE
    /\ release = [n \in Names |-> 1]
    /\ fs = [f \in Paths |-> Absent]
    /\ statefile = EmptyDict
    /\ lock = None
    /\ pc = [i \in Procs |-> "idle"]
    /\ cmd = [i \in Procs |-> NoCmd]
    /\ packages = [i \in Procs |-> EmptyDict]
    /\ state_packages = [i \in Procs |-> EmptyDict]
    /\ queue = [i \in Procs |-> <<>>]
    /\ plan = [i \in Procs |-> NoPlan]
    /\ failures = [i \in Procs |-> <<>>]
    /\ err = [i \in Procs |-> None]
    /\ planned = [i \in Procs |-> <<>>]
    /\ read0 = [i \in Procs |-> EmptyDict]
    /\ runs = 0
    /\ envs = 0
    /\ quiet = {}
    /\ clean = {}
    /\ repaired = {}
    /\ fn \in Calls

NextFn ==
    \/ InstallBinaryCall
    \/ WriteStateOpen
    \/ WriteStateDump
    \/ WriteStateReplace
    \/ WriteStateCrash
    \/ ReadStateCall
    \/ ExtractCall
    \/ SelectByPatternCall
    \/ SelectAssetCall
    \/ FindBinaryCall
    \/ IterPlan
    \/ IterInstall
    \/ IterPostInstall
    \/ IterCleanup
    \/ IterVerify
    \/ IterRecord
    \/ RoundTripWrite
    \/ RoundTripRead
    \/ ReadStateTextCall
    \/ \E outcome \in Outcomes : RequestAttempt(outcome)
    \/ \E pkg \in Repos, answer \in LatestAnswers : GetLatestRelease(pkg, answer)
    \/ \E pkg \in Repos, tag \in TagNames :
          \E answer \in TagAnswers(tag), tags_ok \in BOOLEAN :
              GetReleaseByTag(pkg, tag, answer, tags_ok)
    \/ InstallAsCall
    \/ Sha256Read
    \/ RunPruneCall
    \/ InstallCopyOpen
    \/ \E bytes \in {"new", "truncated", "corrupt"} : InstallCopyWrite(bytes)
    \/ InstallCompare
    \/ InstallChmod
    \/ InstallReplace
    \/ LockAcquire
    \/ \E exit \in BodyExits : LockBody(exit)
    \/ LockRelease
    \/ \E other_done \in BOOLEAN : LockAgain(other_done)

\* One call of one library function, from any of its arguments.
SpecFn == InitFn /\ [][NextFn]_vars

\* A call that has started goes on: every statement, sleep and request
\* (timeout=30) returns.
SpecFnLive == SpecFn /\ WF_vars(NextFn)

\* ------------------------------------------------------------ properties
\* A step in which invocation i got a plan back from _make_plan.
Planning(i) ==
    /\ Len(planned'[i]) = Len(planned[i]) + 1
    /\ plan'[i] # NoPlan

\* A step in which install, post_install and verify of the package that
\* invocation i had planned succeeded.
Installing(i) ==
    /\ pc[i] = "planned"
    /\ pc'[i] = "loop"
    /\ failures'[i] = failures[i]

\* What _make_plan was called with in a Planning(i) step.
PlanName(i) == Head(queue[i])
PlanCurrent(i) == Get(state_packages[i], PlanName(i))
PlanTarget(i) == packages[i][PlanName(i)]
PlanDesired(i) == release[PlanName(i)]

\* C1: when a recorded state exists and its binary path differs from the
\* freshly computed target path, the plan is reinstall / binary_path_changed,
\* whether or not the recorded version equals the desired one; it is never
\* update nor up_to_date.
C1_PathChangeWins ==
    [][\A i \in Procs :
        (/\ Planning(i)
         /\ PlanCurrent(i) # NoState
         /\ PlanCurrent(i).binary_fpath # PlanTarget(i))
        => /\ plan'[i].action = "reinstall"
           /\ plan'[i].reason = "binary_path_changed"]_vars

\* A relocation was planned although the recorded version is the desired one.
C1_Witness ==
    \E i \in Procs :
        /\ plan[i].action = "reinstall"
        /\ plan[i].reason = "binary_path_changed"
        /\ plan[i].current_state.binary_fpath # plan[i].install_fpath
        /\ plan[i].current_version = plan[i].desired_version

\* C2: when there is no recorded state for the package, the plan is install
\* with current_version None and reason None, whatever files exist on disk.
C2_NoStateInstalls ==
    [][\A i \in Procs :
        (Planning(i) /\ PlanCurrent(i) = NoState)
        => /\ plan'[i].action = "install"
           /\ plan'[i].current_version = 0
           /\ plan'[i].reason = None
           /\ plan'[i].desired_version = PlanDesired(i)
           /\ plan'[i].install_fpath = PlanTarget(i)]_vars

\* An install was planned for a package without state while a file sits at
\* its target path.
C2_Witness ==
    \E i \in Procs :
        /\ plan[i].action = "install"
        /\ plan[i].name \notin DOMAIN state_packages[i]
        /\ fs[plan[i].install_fpath] # Absent

\* C3: when a recorded state exists and its binary path equals the target
\* path, the plan is decided in this order: recorded version # release tag
\* gives update with no reason, the disk not being inspected; otherwise an
\* absent binary gives reinstall / binary_missing; otherwise a checksum that
\* differs from the recorded one gives reinstall / checksum_mismatch;
\* otherwise up_to_date.
C3_DecisionOrder ==
    [][\A i \in Procs :
        (/\ Planning(i)
         /\ PlanCurrent(i) # NoState
         /\ PlanCurrent(i).binary_fpath = PlanTarget(i))
        => LET cur == PlanCurrent(i)
               new == plan'[i]
               outdated == cur.version # PlanDesired(i)
               missing == fs[cur.binary_fpath] = Absent
               corrupt == compute_sha256(fs[cur.binary_fpath]) # cur.checksum
           IN /\ outdated
                 => new.action = "update" /\ new.reason = None
              /\ ~outdated /\ missing
                 => new.action = "reinstall" /\ new.reason = "binary_missing"
              /\ ~outdated /\ ~missing /\ corrupt
                 => /\ new.action = "reinstall"
                    /\ new.reason = "checksum_mismatch"
              /\ ~outdated /\ ~missing /\ ~corrupt
                 => new.action = "up_to_date" /\ new.reason = None]_vars

\* An update was planned for a package whose installed binary no longer has
\* the recorded checksum.
C3_Witness ==
    \E i \in Procs :
        /\ pc[i] = "planned"
        /\ plan[i].action = "update"
        /\ plan[i].current_state.binary_fpath = plan[i].install_fpath
        /\ compute_sha256(fs[plan[i].install_fpath])
           # plan[i].current_state.checksum

\* The pcs of the with acquire_lock() block, and those after read_state.
Locked == {"read", "loop", "planned"}
AfterRead == {"loop", "planned"}

\* C4: in run_sync and non-dry-run run_prune the state file is read after
\* the lock is acquired, every later plan, install and write_state of the
\* invocation happens while it still holds the lock, and the lock is given
\* up only when the invocation ends; so the file an invocation writes over
\* is the one it read, updated by its own writes only.
C4_LockSpansCycle ==
    /\ [](\A i \in Procs : pc[i] \in Locked => lock = i)
    /\ [](\A i \in Procs : pc[i] \in AfterRead => statefile = state_packages[i])
    /\ [][/\ (fs' # fs /\ envs' = envs)
             => \E i \in Procs : lock = i /\ pc[i] \in AfterRead
          /\ statefile' # statefile
             => \E i \in Procs :
                   /\ lock = i
                   /\ pc[i] \in AfterRead
                   /\ statefile' =
                         IF cmd[i].kind = "sync"
                         THEN state_packages'[i]
                         ELSE Without(state_packages[i],
                                      Orphans(state_packages[i],
                                              DOMAIN packages[i]))
          /\ \A i \in Procs :
                (pc[i] \in Locked /\ lock' # i) => pc'[i] = "idle"]_vars

\* One invocation is between two writes of its cycle while another one is
\* about to try the lock.
C4_Witness ==
    \E i, j \in Procs :
        /\ i # j
        /\ pc[i] = "planned"
        /\ statefile # read0[i]
        /\ pc[j] = "acquire"
        /\ cmd[j].dry_run = FALSE

\* C5: acquire_lock never blocks: when the lock is held it raises LockError
\* at once; at most one invocation is inside a locked section, and the
\* invocation that failed to acquire reads, installs and writes nothing.
C5_FailFast ==
    /\ [](\A i \in Procs : pc[i] = "acquire" => ENABLED acquire_lock(i))
    /\ [](\A i, j \in Procs :
            (pc[i] \in Locked /\ pc[j] \in Locked) => i = j)
    /\ [][\A i \in Procs :
            (pc[i] = "acquire" /\ lock # None /\ pc'[i] # "acquire")
            => /\ pc'[i] = "idle"
               /\ err'[i] = "LockError"
               /\ state_packages'[i] = EmptyDict
               /\ UNCHANGED <<lock, statefile, fs>>]_vars

\* An invocation was refused the lock that another one still holds.
C5_Witness ==
    \E i, j \in Procs :
        /\ lock = i
        /\ pc[i] \in Locked
        /\ err[j] = "LockError"
        /\ pc[j] = "idle"

\* Invocation i is a sync that follows a failure-free non-dry-run sync of
\* the same declarations, with no environment event since that sync began.
Repeats(i) ==
    /\ cmd[i].kind = "sync"
    /\ pc[i] \in AfterRead
    /\ i \in quiet
    /\ packages[i] \in clean

\* C6: a sync that immediately follows a non-dry-run sync without failures,
\* with the same package declarations and releases and no external change
\* to any file, plans up_to_date for every declared package, installs
\* nothing and writes no state.
C6_Idempotent ==
    [][\A i \in Procs :
        Repeats(i)
        => /\ Planning(i) => plan'[i].action = "up_to_date"
           /\ pc'[i] # "planned"
           /\ UNCHANGED <<fs, statefile>>]_vars

\* The repeated sync is about to reinstall a package whose recorded checksum
\* is not that of the file at its path: another declared package installs
\* to the same path.
C6_Witness ==
    \E i \in Procs :
        /\ Repeats(i)
        /\ pc[i] = "planned"
        /\ plan[i].reason = "checksum_mismatch"
        /\ \E n \in DOMAIN packages[i] :
              /\ n # plan[i].name
              /\ packages[i][n] = plan[i].install_fpath

\* No two packages that invocation i loaded install to the same path.
Apart(i) ==
    \A m, n \in DOMAIN packages[i] : m # n => packages[i][m] # packages[i][n]

\* The repeated sync changes nothing when the declared packages install to
\* distinct paths.
IdempotentApart ==
    [][\A i \in Procs :
        (Repeats(i) /\ Apart(i))
        => /\ Planning(i) => plan'[i].action = "up_to_date"
           /\ pc'[i] # "planned"
           /\ UNCHANGED <<fs, statefile>>]_vars

\* C7: when the binary of a recorded package is deleted or changed while the
\* recorded version and path are the desired ones, the next non-dry-run
\* sync plans reinstall for it; when that install succeeds the persisted
\* checksum is the checksum of the file at the recorded path; and the sync
\* after that plans up_to_date for the package.
C7_DriftRepaired ==
    [][\A i \in Procs :
        /\ (/\ Planning(i)
            /\ ~cmd[i].dry_run
            /\ PlanCurrent(i) # NoState
            /\ PlanCurrent(i).binary_fpath = PlanTarget(i)
            /\ PlanCurrent(i).version = PlanDesired(i)
            /\ \/ fs[PlanTarget(i)] = Absent
               \/ compute_sha256(fs[PlanTarget(i)]) # PlanCurrent(i).checksum)
           => /\ plan'[i].action = "reinstall"
              /\ plan'[i].reason \in Drift
              /\ pc'[i] = "planned"
        /\ (Installing(i) /\ plan[i].reason \in Drift)
           => LET new == statefile'[plan[i].name]
              IN new.checksum = compute_sha256(fs'[new.binary_fpath])
        /\ (Planning(i) /\ PlanName(i) \in repaired)
           => plan'[i].action = "up_to_date"]_vars

\* A package whose drift was repaired is planned for reinstall again by the
\* following sync.
C7_Witness ==
    \E i \in Procs :
        /\ pc[i] = "planned"
        /\ plan[i].reason \in Drift
        /\ plan[i].name \in repaired

\* A repaired package is up_to_date in the following sync when the declared
\* packages install to distinct paths.
RepairedApart ==
    [][\A i \in Procs :
        (Planning(i) /\ PlanName(i) \in repaired /\ Apart(i))
        => plan'[i].action = "up_to_date"]_vars

\* C8: in run_sync a failure of planning or installing a package, other than
\* an AuthError, adds exactly one failure entry for that package and the
\* loop goes on with the next package; every declared package is planned
\* exactly once in a run that reaches its end, whatever failed before, and
\* the failures are reported after the last package.
C8_FailureIsolation ==
    /\ [][\A i \in Procs :
            (pc[i] \in AfterRead /\ failures'[i] # failures[i] /\ pc'[i] # "idle")
            => /\ Len(failures'[i]) = Len(failures[i]) + 1
               /\ SubSeq(failures'[i], 1, Len(failures[i])) = failures[i]
               /\ failures'[i][Len(failures'[i])].name = Head(queue[i])
               /\ queue'[i] = Tail(queue[i])
               /\ pc'[i] = "loop"
               /\ lock' = i
               /\ planned'[i] \o queue'[i] = Sorted(DOMAIN packages[i])]_vars
    /\ [](\A i \in Procs :
            \A k, l \in 1..Len(failures[i]) :
                failures[i][k].name = failures[i][l].name => k = l)
    /\ [](\A i \in Procs :
            (cmd[i].kind = "sync" /\ pc[i] = "loop")
            => planned[i] \o queue[i] = Sorted(DOMAIN packages[i]))
    /\ [][\A i \in Procs :
            (err'[i] = "Failed" /\ pc[i] # "idle")
            => /\ queue[i] = <<>>
               /\ failures[i] # <<>>
               /\ planned[i] = Sorted(DOMAIN packages[i])]_vars

\* The first package failed and the second one is being installed.
C8_Witness ==
    \E i \in Procs :
        /\ pc[i] = "planned"
        /\ Len(failures[i]) = 1
        /\ failures[i][1].name = NameSeq[1]
        /\ plan[i].name = NameSeq[2]

\* C9: an AuthError raised while a package is processed, during release
\* resolution or during the asset download, leaves run_sync at once: it is
\* never recorded as a failure of the package, and no later package is
\* planned, installed or written.
C9_AuthAborts ==
    /\ [](\A i \in Procs : \A k \in 1..Len(failures[i]) :
            failures[i][k].kind # "AuthError")
    /\ [][\A i \in Procs :
            (err'[i] = "AuthError" /\ pc[i] # "idle")
            => /\ pc'[i] = "idle"
               /\ lock' = None
               /\ UNCHANGED <<fs, statefile>>]_vars

\* After an AuthError of the download of the first package the second one
\* is being installed.
C9_Witness ==
    \E i \in Procs :
        /\ pc[i] = "planned"
        /\ plan[i].name = NameSeq[2]
        /\ \E k \in 1..Len(failures[i]) :
              /\ failures[i][k].kind = "AuthError"
              /\ failures[i][k].name = NameSeq[1]

\* C10: run_sync writes the state in the step in which install, post_install
\* and verify of a package succeeded; the document written holds the new
\* PackageState of that package, every entry read at the start of the run
\* and every entry written earlier in the run; a run that stops at a later
\* package leaves the document as it is.
C10_ProgressPersisted ==
    /\ [][\A i \in Procs :
            Installing(i)
            => LET name == plan[i].name
               IN /\ DOMAIN statefile' = DOMAIN statefile \cup {name}
                  /\ statefile'[name] =
                        PackageState(plan[i].desired_version,
                                     compute_sha256(fs'[plan[i].install_fpath]),
                                     plan[i].install_fpath)
                  /\ \A n \in DOMAIN statefile \ {name} :
                        statefile'[n] = statefile[n]]_vars
    /\ [](\A i \in Procs :
            (cmd[i].kind = "sync" /\ pc[i] \in AfterRead)
            => \A n \in DOMAIN read0[i] :
                  /\ n \in DOMAIN statefile
                  /\ statefile[n] = read0[i][n] \/ n \in Range(planned[i]))
    /\ [][\A i \in Procs :
            (cmd[i].kind = "sync" /\ pc[i] \in Locked /\ pc'[i] = "idle")
            => statefile' = statefile]_vars

\* The run has written the first package next to an entry it had read and
\* has the second package still to visit.
C10_Witness ==
    \E i \in Procs :
        /\ cmd[i].kind = "sync"
        /\ pc[i] = "loop"
        /\ planned[i] = <<NameSeq[1]>>
        /\ queue[i] = <<NameSeq[2]>>
        /\ NameSeq[2] \in DOMAIN read0[i]
        /\ statefile # read0[i]
        /\ statefile[NameSeq[2]] = read0[i][NameSeq[2]]

\* C11: when install, post_install or verify of a package fails, the
\* persisted entry of the package stays what the run read at its start
\* (none for a fresh install, the old entry for an update or reinstall),
\* also in the documents the run writes for later packages.
C11_FailureKeepsEntry ==
    /\ [](\A i \in Procs :
            (cmd[i].kind = "sync" /\ pc[i] \in AfterRead)
            => \A k \in 1..Len(failures[i]) :
                  Get(statefile, failures[i][k].name)
                  = Get(read0[i], failures[i][k].name))
    /\ [][\A i \in Procs :
            (pc[i] = "planned" /\ failures'[i] # failures[i] /\ pc'[i] = "loop")
            => /\ statefile' = statefile
               /\ state_packages'[i] = state_packages[i]]_vars

\* The verify hook of the first package failed on an update, the second
\* package was written afterwards, and the run is at the end of its loop.
C11_Witness ==
    \E i \in Procs :
        /\ cmd[i].kind = "sync"
        /\ pc[i] = "loop"
        /\ queue[i] = <<>>
        /\ failures[i] = <<Failure(NameSeq[1], "verify")>>
        /\ NameSeq[1] \in DOMAIN read0[i]
        /\ statefile # read0[i]

\* C12: run_sync with dry_run set, and run_sync for a package whose plan is
\* up_to_date, goes to the next package without calling the installer or
\* write_state: the state file and the files of the bin directory stay as
\* they are.
C12_NoOpAndDryRun ==
    /\ [][\A i \in Procs :
            (Planning(i) /\ (cmd[i].dry_run \/ plan'[i].action = "up_to_date"))
            => /\ pc'[i] = "loop"
               /\ queue'[i] = Tail(queue[i])
               /\ UNCHANGED <<fs, statefile, state_packages>>]_vars
    /\ [](\A i \in Procs :
            pc[i] = "planned"
            => ~cmd[i].dry_run /\ plan[i].action # "up_to_date")
    /\ [][\A i \in Procs :
            (cmd[i].kind = "sync" /\ cmd[i].dry_run /\ lock = i)
            => UNCHANGED <<fs, statefile>>]_vars

\* A dry run planned an update and went on without touching the state.
C12_Witness ==
    \E i \in Procs :
        /\ cmd[i].kind = "sync"
        /\ cmd[i].dry_run
        /\ pc[i] = "loop"
        /\ plan[i].action = "update"
        /\ plan[i].name \in Range(planned[i])
        /\ statefile = read0[i]
        /\ statefile[plan[i].name].version # plan[i].desired_version

\* C13: when the checksum of the temp copy differs from the checksum of the
\* source, _install_binary raises and the destination path is as it was:
\* absent if it was absent, the same bytes otherwise.
C13_MismatchLeavesDest ==
    (/\ fn.op = "_install_binary"
     /\ fn.raised # Pending
     /\ compute_sha256(fn.source) # compute_sha256(fn.copied))
    => /\ fn.raised = "GhrelError"
       /\ fn.disk[fn.dest] = fn.before[fn.dest]
       /\ fn.disk = fn.before

\* The copy was corrupted on the way to a destination that held a binary.
C13_Witness ==
    /\ fn.op = "_install_binary"
    /\ fn.raised = "GhrelError"
    /\ fn.source # fn.copied
    /\ fn.before[fn.dest] \notin {Absent, fn.copied}

\* C14: write_state writes the whole document to a temp file of the state
\* directory and renames it over state.json; a read_state at any moment of
\* the write, or after a crash at any step of it, returns the complete
\* previous document or the complete new one, never a partial one.
C14_AtomicWrite ==
    fn.op = "write_state"
    => /\ fn.seen.read
          => /\ fn.seen.ok
             /\ fn.seen.doc \in {fn.old, fn.doc}
       /\ ReadStateFile(fn.file).ok
       /\ fn.at \in {"open", "dump", "replace"}
          => fn.file \in {Missing, File(TRUE, Dump(fn.old))}
       /\ fn.at = "done" => fn.file = File(TRUE, Dump(fn.doc))

\* The writer died with the temp file half written, and a reader then got
\* the previous document.
C14_Witness ==
    /\ fn.op = "write_state"
    /\ fn.at = "crashed"
    /\ fn.tmp.exists
    /\ Len(fn.tmp.text) = 2
    /\ Len(Dump(fn.doc)) > 2
    /\ fn.seen.read
    /\ fn.seen.doc = fn.old
    /\ fn.old # fn.doc
    /\ fn.old # {}

\* An entry that extract_archive has to refuse: an absolute name, a name
\* that resolves outside the destination root, or a link.
Offending(entry) ==
    \/ entry.kind \in {"symlink", "hardlink"}
    \/ entry.name[1] = "/"
    \/ ~_is_within_directory(DestRoot, Resolve(DestRoot, entry.name))

\* C15: extract_archive validates every entry before it extracts any: when
\* some entry, at any position, has an absolute name, resolves outside the
\* destination root or is a link, it raises ArchiveError and nothing of the
\* archive has been written under the destination, the safe entries ahead
\* of the offending one included.
C15_ValidateBeforeExtract ==
    (/\ fn.op = "extract_archive"
     /\ fn.raised # Pending
     /\ \E k \in 1..Len(fn.members) : Offending(fn.members[k]))
    => /\ fn.raised = "ArchiveError"
       /\ fn.written = {}

\* A zip archive with a safe file followed by a symlink entry was extracted.
C15_Witness ==
    /\ fn.op = "extract_archive"
    /\ fn.format = "zip"
    /\ fn.raised = None
    /\ Len(fn.members) >= 2
    /\ ~Offending(fn.members[1])
    /\ fn.members[2].kind = "symlink"
    /\ fn.written # {}

\* The same for tar archives, where every kind of offending entry is
\* checked.
TarValidateBeforeExtract ==
    (/\ fn.op = "extract_archive"
     /\ fn.format = "tar"
     /\ fn.raised # Pending
     /\ \E k \in 1..Len(fn.members) : Offending(fn.members[k]))
    => /\ fn.raised = "ArchiveError"
       /\ fn.written = {}

\* C16: extract_archive refuses every entry whose declared type is a
\* symbolic or hard link, in tar and in zip archives, also when the name of
\* the link entry is a safe relative path inside the destination.
C16_LinksRejected ==
    (/\ fn.op = "extract_archive"
     /\ fn.format \in {"tar", "zip"}
     /\ fn.raised # Pending
     /\ \E k \in 1..Len(fn.members) :
           fn.members[k].kind \in {"symlink", "hardlink"})
    => fn.raised = "ArchiveError"

\* A zip archive whose only entry is a symlink with a safe name was
\* extracted without an error.
C16_Witness ==
    /\ fn.op = "extract_archive"
    /\ fn.format = "zip"
    /\ fn.raised = None
    /\ Len(fn.members) = 1
    /\ fn.members[1].kind = "symlink"
    /\ ~is_absolute(fn.members[1].name)
    /\ _is_within_directory(DestRoot, Resolve(DestRoot, fn.members[1].name))

\* Links are refused in tar archives.
TarLinksRejected ==
    (/\ fn.op = "extract_archive"
     /\ fn.format = "tar"
     /\ fn.raised # Pending
     /\ \E k \in 1..Len(fn.members) :
           fn.members[k].kind \in {"symlink", "hardlink"})
    => fn.raised = "ArchiveError"

\* The positions of the assets of the call whose name matches its pattern.
Matching == {k \in 1..Len(fn.assets) : fnmatch(fn.assets[k], fn.pattern)}

\* C17: _select_asset_by_pattern returns an asset exactly when it is the
\* only asset of the release whose name matches the pattern; with no match
\* it raises the no-match error, with two or more the ambiguity error that
\* lists every matching name, and never the first of several.
C17_SingleMatch ==
    fn.op = "_select_asset_by_pattern" /\ fn.raised # Pending =>
        /\ fn.raised = None <=> Cardinality(Matching) = 1
        /\ fn.raised = None => \A k \in Matching : fn.asset = fn.assets[k]
        /\ Matching = {} =>
            /\ fn.raised = "GhrelError"
            /\ fn.message \in
                {"No assets match pattern", "No assets match platform"}
        /\ Cardinality(Matching) >= 2 =>
            /\ fn.raised = "GhrelError"
            /\ fn.message = "Multiple assets match pattern"
            /\ Range(fn.names) = {fn.assets[k] : k \in Matching}

\* A call over three assets, two of which match: the ambiguity error.
C17_Witness ==
    /\ fn.op = "_select_asset_by_pattern"
    /\ Len(fn.assets) = 3
    /\ Cardinality(Matching) = 2
    /\ fn.message = "Multiple assets match pattern"
    /\ Len(fn.names) = 2

\* The assets of the call that a platform inference would pick.
Candidates ==
    {k \in 1..Len(fn.assets) :
        Candidate(fn.assets[k], fn.os_name, fn.arch)}

Named == {f \in fn.files : f[Len(f)] = fn.binary}

\* C19: for a bare filename _find_binary returns a file only when exactly
\* one file of that name exists in the tree; two or more (the root
\* included) raise the multiple-matches error and none raises the
\* not-found error listing the archive entries.
C19_BareNameUnique ==
    fn.op = "_find_binary" /\ fn.raised # Pending =>
        /\ fn.raised = None => Cardinality(Named) = 1 /\ fn.path \in Named
        /\ Cardinality(Named) >= 2 =>
            fn.raised = "GhrelError" /\ fn.message = "matched multiple files"
        /\ Named = {} =>
            /\ fn.raised = "GhrelError"
            /\ fn.message = "not found in archive"
            /\ fn.entries = fn.files

\* tool at the root and bin/tool: the call has returned the root file.
C19_Witness ==
    /\ fn.op = "_find_binary"
    /\ fn.binary = "tool"
    /\ fn.files = {<<"tool">>, <<"bin", "tool">>}
    /\ fn.raised = None
    /\ fn.path = <<"tool">>

\* What holds of _find_binary: when nothing of that name exists at the
\* root, the bare filename must be unique in the tree.
BelowRootUnique ==
    fn.op = "_find_binary" /\ ~Exists(fn.files, <<fn.binary>>) =>
        C19_BareNameUnique

\* C20: a non-dry-run prune sweep removes from the persisted state exactly
\* the entries whose name is not among the package files run_prune listed,
\* deletes the binary of each such entry (a missing binary raises nothing),
\* leaves every other entry as it was, and leaves only declared names in
\* the persisted state; a sweep that finds no such entry, as a second prune
\* does, changes neither the state file nor any binary.
C20_PruneSweeps ==
    [][PruneSweep("p") =>
        LET package_names == DOMAIN packages["p"]
            gone == {n \in DOMAIN statefile : n \notin package_names}
        IN /\ DOMAIN statefile' = DOMAIN statefile \ gone
           /\ \A n \in DOMAIN statefile' : statefile'[n] = statefile[n]
           /\ \A n \in gone : fs'[statefile[n].binary_fpath] = Absent
           /\ err'["p"] = None
           /\ DOMAIN statefile' \subseteq package_names
           /\ gone = {} => statefile' = statefile /\ fs' = fs]_vars

\* After one sync and the removal of a's package file, nothing but a prune
\* can have deleted the binary both packages were installed to: a's entry
\* is gone with the binary, b's entry is still there.
C20_Witness ==
    /\ pc["p"] = "idle"
    /\ envs = MaxSeqEnv - 1
    /\ DOMAIN pkgfiles = {"b"}
    /\ DOMAIN statefile = {"b"}
    /\ fs[statefile["b"].binary_fpath] = Absent

\* A step in which invocation i starts the command `kind`.
Begins(i, kind) ==
    /\ pc[i] = "idle"
    /\ runs' = runs - 1
    /\ cmd'[i].kind = kind

\* C21: run_prune started without a packages directory raises ConfigError
\* at once: it does not go on to the lock, reads no state, deletes no file
\* and drops no entry, so the installed packages are not taken for orphans.
C21_PruneNeedsDirectory ==
    [][Begins("p", "prune") /\ ~pkgdir =>
        /\ err'["p"] = "ConfigError"
        /\ pc'["p"] = "idle"
        /\ lock' = lock
        /\ packages' = packages
        /\ state_packages' = state_packages
        /\ statefile' = statefile
        /\ fs' = fs]_vars

\* Both packages are installed, the directory is gone, and the prune that
\* was started has raised ConfigError with every entry and binary in place.
C21_Witness ==
    /\ ~pkgdir
    /\ pc["p"] = "idle"
    /\ err["p"] = "ConfigError"
    /\ cmd["p"] = [kind |-> "prune", dry_run |-> FALSE]
    /\ DOMAIN statefile = Names
    /\ \A n \in Names : fs[statefile[n].binary_fpath] # Absent

\* The hooks of the pass that have been called so far.
Called(hook) == \E k \in 1..Len(fn.calls) : fn.calls[k].hook = hook

\* C22: an Exception raised by post_install or verify, with any message
\* or none, ends the pass with one failure entry and nothing raised; the
\* loop goes on, no state entry is written, and after a post_install
\* failure verify is not called.
C22_HookFailureCaught ==
    /\ fn.op = "iteration"
    /\ fn.at = "done"
    /\ ~fn.dry_run /\ fn.action = "install" /\ fn.install = "ok"
    =>  /\ fn.post_install.raises = "Exception" =>
            /\ fn.raised = None
            /\ Len(fn.failures) = 1
            /\ ~Called("verify")
            /\ ~fn.written
        /\ fn.post_install.raises = None /\ fn.verify.raises = "Exception" =>
            /\ fn.raised = None
            /\ Len(fn.failures) = 1
            /\ Called("verify")
            /\ ~fn.written

\* post_install has raised an Exception without a message: the pass is
\* over with the failure "post_install failed: " and verify was not called.
C22_Witness ==
    /\ fn.op = "iteration"
    /\ fn.at = "done"
    /\ fn.post_install = Hook(TRUE, "Exception", <<>>)
    /\ fn.verify.present
    /\ fn.failures = << <<"post_install failed: ">> >>
    /\ Called("post_install")
    /\ ~Called("verify")

\* C23: post_install is called with the binary installed and, for an
\* archive, the extracted directory still there; verify is called only
\* after post_install returned without error and after the temporary and
\* extracted directories are gone; the state entry is written only after
\* verify returned without error.
C23_HookOrder ==
    fn.op = "iteration" =>
        /\ \A k \in 1..Len(fn.calls) :
            /\ fn.calls[k].hook = "post_install" =>
                /\ fn.calls[k].installed
                /\ fn.archive => fn.calls[k].extracted
            /\ fn.calls[k].hook = "verify" =>
                /\ fn.post_install.raises = None
                /\ ~fn.calls[k].temp
                /\ ~fn.calls[k].extracted
        /\ fn.written =>
            /\ fn.verify.raises = None
            /\ fn.post_install.raises = None
            /\ fn.verify.present => Called("verify")

\* An archive package with both hooks: post_install saw the extracted
\* directory, verify did not, and the entry is written.
C23_Witness ==
    /\ fn.op = "iteration"
    /\ fn.archive
    /\ fn.written
    /\ Len(fn.calls) = 2
    /\ fn.calls[1].hook = "post_install" /\ fn.calls[1].extracted
    /\ fn.calls[2].hook = "verify" /\ ~fn.calls[2].temp

\* C24: for a package whose plan is up_to_date run_sync calls the verify
\* hook, and a hook that raises is a failure of that package.
C24_VerifyUpToDate ==
    /\ fn.op = "iteration"
    /\ fn.at = "done"
    /\ ~fn.dry_run /\ fn.action = "up_to_date"
    /\ fn.verify.present
    =>  /\ Called("verify")
        /\ fn.verify.raises = "Exception" => Len(fn.failures) = 1

\* The pass for an up_to_date package with a verify hook that would
\* raise is over: the hook was not called and no failure is recorded.
C24_Witness ==
    /\ fn.op = "iteration"
    /\ fn.at = "done"
    /\ ~fn.dry_run /\ fn.action = "up_to_date"
    /\ fn.verify = Hook(TRUE, "Exception", <<"boom">>)
    /\ ~Called("verify")
    /\ fn.failures = <<>>

\* C25: write_state followed by read_state yields a State with the same
\* names and, for each name, equal version, checksum, installed_at and
\* binary path.
C25_RoundTrip ==
    fn.op = "round_trip" /\ fn.at = "done" =>
        /\ fn.read.raised = None
        /\ DOMAIN fn.read.state = DOMAIN fn.state
        /\ \A n \in DOMAIN fn.state :
            /\ fn.read.state[n].version = fn.state[n].version
            /\ fn.read.state[n].checksum = fn.state[n].checksum
            /\ fn.read.state[n].installed_at = fn.state[n].installed_at
            /\ fn.read.state[n].binary_fpath = fn.state[n].binary_fpath

\* Two packages, one with an absolute binary path, written and read back.
C25_Witness ==
    /\ fn.op = "round_trip"
    /\ fn.at = "done"
    /\ DOMAIN fn.state = Names
    /\ fn.state["a"].binary_fpath = Path(TRUE, <<"bin", "tool">>)
    /\ fn.state["a"].version # fn.state["b"].version
    /\ fn.read.state = fn.state

\* The entries of the document read that lack a required key.
LackingEntries ==
    {k \in 1..Len(fn.text.entries) :
        \E key \in Range(required_keys) : Lacks(fn.text.entries[k].value, key)}

\* What read_state owes a caller whatever the document: the empty State for
\* a missing file, StateError for text that is no JSON, no State at all
\* when it raises, and otherwise every field as the document gives it.
ReadStateNeverDefaults ==
    /\ ~fn.exists => fn.read = ReadResult(None, "", "", EmptyDict)
    /\ fn.exists /\ ~fn.text.json => fn.read.raised = "StateError"
    /\ fn.read.raised # None => fn.read.state = EmptyDict
    /\ fn.exists /\ fn.read.raised = None =>
        /\ LackingEntries = {}
        /\ DOMAIN fn.read.state =
               {fn.text.entries[k].name : k \in 1..Len(fn.text.entries)}
        /\ \A k \in 1..Len(fn.text.entries) :
            LET pkg == fn.read.state[fn.text.entries[k].name]
                value == fn.text.entries[k].value
            IN /\ <<pkg.version>> = value.fields["version"]
               /\ <<pkg.checksum>> = value.fields["checksum"]
               /\ <<pkg.installed_at>> = value.fields["installed_at"]
               /\ str(pkg.binary_fpath) = value.fields["binary_path"]

\* C26: read_state returns the empty State when state.json does not exist;
\* for text that is no JSON and for a document with an entry lacking one of
\* version, checksum, installed_at, binary_path it raises StateError, naming
\* the package of a lacking entry; it never fills in a default and never
\* returns a partially parsed State.
C26_ReadStateErrors ==
    fn.op = "read_state" /\ fn.at = "done" =>
        /\ ReadStateNeverDefaults
        /\ fn.exists /\ fn.text.json /\ LackingEntries # {} =>
            /\ fn.read.raised = "StateError"
            /\ fn.read.name \in {fn.text.entries[k].name : k \in LackingEntries}

\* An entry that is null has none of the four fields, and read_state leaves
\* with a TypeError.
C26_Witness ==
    /\ fn.op = "read_state"
    /\ fn.at = "done"
    /\ fn.exists
    /\ fn.text = Document(<<[name |-> "a", value |-> JsonOther("null")]>>)
    /\ fn.read.raised = "TypeError"

\* For documents whose entries are objects, strings or arrays the claim of
\* C26 holds: the first entry lacking a key is named in a StateError.
ObjectEntriesStateError ==
    (/\ fn.op = "read_state"
     /\ fn.at = "done"
     /\ \A k \in 1..Len(fn.text.entries) :
            fn.text.entries[k].value.type \notin {"null", "number"})
        => C26_ReadStateErrors

\* The transport failures among the attempts made so far.
Failures == SelectSeq(fn.seen, LAMBDA o : o.exception)

\* What holds at every point of a call of _request_raw.
RetryDiscipline ==
    /\ Len(fn.seen) <= MaxAttempts
    /\ \A k \in 1..(Len(fn.seen) - 1) : fn.seen[k].exception
    /\ fn.sleeps = SubSeq(<<1, 2>>, 1, IF Len(Failures) < 2 THEN Len(Failures) ELSE 2)
    /\ fn.at = "loop" =>
        /\ Len(fn.seen) < MaxAttempts
        /\ Failures = fn.seen
    /\ fn.at = "done" =>
        /\ fn.seen # <<>>
        /\ LET last == fn.seen[Len(fn.seen)]
           IN /\ last.exception =>
                    Len(fn.seen) = MaxAttempts /\ fn.result = NetworkError
              /\ ~last.exception /\ last.status >= 400 =>
                    fn.result.raised \in {"NotFoundError", "AuthError", "GhrelError"}

\* C27: _request_raw issues at most 3 attempts; only transport failures are
\* retried, with a delay of 1s after the first failure, 2s after the second
\* and none after the third; three transport failures in a row end in the
\* network error; an HTTP error status is raised on the attempt that
\* received it and never retried; the call always terminates.
C27_Retries ==
    /\ [](fn.op = "_request_raw" => RetryDiscipline)
    /\ (fn.op = "_request_raw") ~> (fn.op = "_request_raw" /\ fn.at = "done")

\* Three transport failures in a row: two sleeps, then the network error.
C27_Witness ==
    /\ fn.op = "_request_raw"
    /\ fn.at = "done"
    /\ fn.seen = <<Transport, Transport, Transport>>
    /\ fn.sleeps = <<1, 2>>
    /\ fn.result = NetworkError

\* C28: status 404 raises NotFoundError; 401 or 403 raises AuthError if and
\* only if the client has a token, otherwise the rate-limit error whose hint
\* says to set a token; any other status >= 400 raises the API error with
\* the status code and URL; a status < 400 returns the response; a client
\* without a token never raises AuthError.
C28_StatusErrors ==
    fn.op = "_request_raw" /\ fn.at = "done" /\ ~fn.seen[Len(fn.seen)].exception =>
        LET status == fn.seen[Len(fn.seen)].status
            result == fn.result
        IN /\ status = 404 => result.raised = "NotFoundError"
           /\ status \in {401, 403} =>
                /\ result.raised = "AuthError" <=> HasToken(fn.token)
                /\ ~HasToken(fn.token) =>
                    /\ result.raised = "GhrelError"
                    /\ result.message = "GitHub API rate limit exceeded."
                    /\ result.hint = "Set GITHUB_TOKEN to increase the limit."
           /\ status >= 400 /\ status \notin {401, 403, 404} =>
                /\ result.raised = "GhrelError"
                /\ result.message = "GitHub API error"
                /\ result.status = status
                /\ result.url = fn.url
           /\ status < 400 => result = Returned(status)
           /\ ~HasToken(fn.token) => result.raised # "AuthError"

\* A client without a token answered 403 after one transport failure: the
\* rate-limit error.
C28_Witness ==
    /\ fn.op = "_request_raw"
    /\ fn.at = "done"
    /\ fn.token = None
    /\ fn.seen = <<Transport, Response(403)>>
    /\ fn.result.raised = "GhrelError"
    /\ fn.result.hint = "Set GITHUB_TOKEN to increase the limit."

\* Calls k and l of the log are calls of the same method with the same
\* arguments.
SameCall(k, l) ==
    /\ fn.log[k].method = fn.log[l].method
    /\ fn.log[k].pkg = fn.log[l].pkg
    /\ fn.log[k].tag = fn.log[l].tag

\* The release cache a call of the log started with.
CacheBefore(k) == IF k = 1 THEN EmptyDict ELSE fn.log[k - 1].cache

\* After a call has succeeded, every later call with the same arguments
\* returns the same Release without a request, and a failed call leaves the
\* release cache as it found it.
CachedOnceCachedForGood ==
    \A k \in 1..Len(fn.log) :
        /\ fn.log[k].raised # None => fn.log[k].cache = CacheBefore(k)
        /\ \A l \in (k + 1)..Len(fn.log) :
              SameCall(k, l) /\ fn.log[k].raised = None =>
                  /\ fn.log[l].requests = <<>>
                  /\ fn.log[l].raised = None
                  /\ fn.log[l].release = fn.log[k].release

\* C29: within one client, after get_latest_release(repo) or
\* get_release_by_tag(repo, tag) has succeeded once, every later call with
\* the same arguments returns the same Release without a request; a failed
\* call caches nothing, so the next call with those arguments issues a
\* request again.
C29_ReleaseCache ==
    fn.op = "client" =>
        /\ CachedOnceCachedForGood
        /\ \A k \in 1..Len(fn.log) : \A l \in (k + 1)..Len(fn.log) :
              (/\ SameCall(k, l)
               /\ fn.log[k].raised # None
               /\ \A m \in (k + 1)..(l - 1) : ~SameCall(k, m))
                  => fn.log[l].requests # <<>>

\* get_release_by_tag(repo, "latest") fails, get_latest_release(repo)
\* succeeds, and the next get_release_by_tag(repo, "latest") returns the
\* latest release without a request.
C29_Witness ==
    /\ fn.op = "client"
    /\ Len(fn.log) = 3
    /\ fn.log[1].method = "get_release_by_tag"
    /\ fn.log[1].tag = "latest"
    /\ fn.log[1].raised = "GhrelError"
    /\ fn.log[2].method = "get_latest_release"
    /\ fn.log[2].release = Release("v2", <<"tool">>)
    /\ fn.log[3].method = "get_release_by_tag"
    /\ fn.log[3].tag = "latest"
    /\ fn.log[3].requests = <<>>
    /\ fn.log[3].release = Release("v2", <<"tool">>)

\* On a client never asked for a tag named "latest" the claim of C29 holds.
VersionTagsCacheSound ==
    (/\ fn.op = "client"
     /\ \A k \in 1..Len(fn.log) :
            fn.log[k].method = "get_release_by_tag" => fn.log[k].tag # "latest")
        => C29_ReleaseCache

\* Invocation i starts a sync: the step is its own, and it either goes on
\* to the lock or raises.
SyncStarts(i) ==
    /\ Begins(i, "sync")
    /\ pc'[i] = "acquire" \/ err'[i] # None
    /\ cmd'[i] # cmd[i] \/ err'[i] # err[i] \/ pc'[i] # pc[i]

\* Invocation i, about to take the lock for a sync, finds it held by the
\* other invocation and leaves.
LockRefused(i) ==
    /\ pc[i] = "acquire"
    /\ cmd[i].kind = "sync"
    /\ lock \notin {None, i}
    /\ pc'[i] # "acquire"

\* The invocation has nothing planned, and the step changes no file and no
\* state entry.
NothingProcessed(i) ==
    /\ pc'[i] = "idle"
    /\ planned'[i] = <<>>
    /\ plan'[i] = NoPlan
    /\ state_packages'[i] = EmptyDict
    /\ lock' = lock
    /\ fs' = fs
    /\ statefile' = statefile

\* C30: if the lock is held by another instance, the packages directory is
\* missing, or a descriptor fails to load, run_sync raises LockError or
\* ConfigError before any package is planned, downloaded, installed or
\* written to the state.
C30_AbortBeforeProcessing ==
    [][\A i \in Procs :
        /\ (/\ SyncStarts(i)
            /\ ~pkgdir \/ \E n \in DOMAIN pkgfiles : pkgfiles[n] = Broken)
              => err'[i] = "ConfigError" /\ NothingProcessed(i)
        /\ LockRefused(i)
              => err'[i] = "LockError" /\ NothingProcessed(i)]_vars

\* While q holds the lock in a sync with an install under way, the sync of
\* p has raised LockError with nothing planned.
C30_Witness ==
    /\ lock = "q"
    /\ cmd["q"].kind = "sync"
    /\ pc["q"] = "planned"
    /\ pc["p"] = "idle"
    /\ cmd["p"] = [kind |-> "sync", dry_run |-> FALSE]
    /\ err["p"] = "LockError"
    /\ planned["p"] = <<>>

\* A finished call of get_install_as.
InstallAsDone == fn.op = "get_install_as" /\ fn.result # Pending

\* C31: the installed filename is the explicit install_as when it is set;
\* otherwise, for an archive package, the basename of the archive-relative
\* binary path; otherwise the basename of the raw asset name.
C31_InstalledFilename ==
    InstallAsDone =>
        fn.result =
            IF fn.package.install_as \notin {None, ""} THEN fn.package.install_as
            ELSE IF fn.package.archive THEN PathName(fn.package.binary)
            ELSE fn.asset

\* C31, as the code has it: the installed filename is install_as when it
\* is set and the package name otherwise, whatever the asset is called; a
\* package loaded from its file has, when it is an archive package, an
\* install_as that is the given one or the basename of its binary.
C31_InstallAsOrName ==
    InstallAsDone =>
        /\ fn.package.install_as \notin {None, ""} =>
               fn.result = fn.package.install_as
        /\ fn.package.install_as \in {None, ""} =>
               fn.result = fn.package.name
        /\ fn.package.loaded /\ fn.package.archive =>
               fn.result \in {"tool2", PathName(fn.package.binary)}

\* A loaded package that is no archive and sets no install_as is installed
\* under its package name, not under the name of its asset.
C31_Witness ==
    /\ InstallAsDone
    /\ fn.package.loaded
    /\ ~fn.package.archive
    /\ fn.package.install_as = None
    /\ fn.asset = "tool-linux-amd64"
    /\ fn.result = "tool"

\* C32: get_install_as returns the package name whenever install_as is not
\* set, for archive and non-archive packages alike, independent of the
\* binary pattern and of the asset name.
C32_DefaultsToName ==
    InstallAsDone /\ fn.package.install_as = None => fn.result = fn.package.name

\* An archive package built without install_as, with binary bin/rg and the
\* asset rg.tar.gz, is installed under its package name.
C32_Witness ==
    /\ InstallAsDone
    /\ fn.package.install_as = None
    /\ fn.package.archive
    /\ fn.package.binary = <<"bin", "rg">>
    /\ fn.asset = "rg.tar.gz"
    /\ fn.result = "tool"

\* C33: compute_sha256 returns "sha256:" followed by the hex SHA-256 digest
\* of the file's complete content, for the empty file and for files longer
\* than one read; the hasher is fed a prefix of the content at every point,
\* so equal contents give equal results.
C33_Sha256Complete ==
    fn.op = "compute_sha256" =>
        /\ fn.fed = SubSeq(fn.content, 1, fn.pos)
        /\ fn.result # <<>> =>
            /\ fn.result = <<"sha256:", hexdigest(fn.content)>>
            /\ fn.reads = (Len(fn.content) + ChunkSize - 1) \div ChunkSize + 1

\* A file of three reads, the last one short, hashed to the end.
C33_Witness ==
    /\ fn.op = "compute_sha256"
    /\ Len(fn.content) = 2 * ChunkSize + 1
    /\ fn.reads = 4
    /\ fn.result = <<"sha256:", hexdigest(fn.content)>>

\* C34: run_prune with dry_run set deletes no file, does not write the
\* state file and does not take the lock; the names it reports are the
\* entries a prune without dry_run removes from the same state and package
\* directory.
C34_DryRunPrune ==
    fn.op = "run_prune" /\ fn.at = "done" /\ fn.dry_run =>
        /\ fn.disk_after = fn.disk
        /\ fn.state_after = fn.state
        /\ ~fn.written
        /\ ~fn.locked
        /\ fn.raised = None =>
            LET swept == prune_sweep(fn.state, fn.package_names, fn.disk)
            IN /\ fn.reported = swept.removed
               /\ fn.reported = DOMAIN fn.state \ DOMAIN swept.state

\* A dry run over a state with one orphan and one declared package, both
\* binaries on disk: the orphan is reported and nothing is touched.
C34_Witness ==
    /\ fn.op = "run_prune"
    /\ fn.at = "done"
    /\ fn.dry_run
    /\ DOMAIN fn.state = Names
    /\ fn.package_names = {"a"}
    /\ fn.reported = {"b"}
    /\ \A f \in Paths : fn.disk_after[f] = Junk

\* C35: in _install_binary the final path changes only in the rename, after
\* the checksums were compared and the temp file made executable: at every
\* point it holds the complete previous file or the complete, verified,
\* executable new binary.
C35_AtomicRename ==
    fn.op = "_install_binary_steps" =>
        /\ fn.files["dest"] \in {fn.before, DiskFile(fn.source.bytes, TRUE)}
        /\ fn.files["dest"] # fn.before => fn.at = "done" /\ fn.raised = None
        /\ fn.at # "done" => fn.files["dest"] = fn.before
        /\ fn.at = "done" /\ fn.raised = None =>
               fn.files["dest"] = DiskFile(fn.source.bytes, TRUE)

\* A source that is not executable installed over an old binary: the
\* destination holds the new bytes, executable, and the temp file is gone.
C35_Witness ==
    /\ fn.op = "_install_binary_steps"
    /\ fn.at = "done"
    /\ fn.raised = None
    /\ ~fn.source.executable
    /\ fn.before = DiskFile("old", TRUE)
    /\ fn.files["dest"] = DiskFile("new", TRUE)
    /\ fn.files["tmp"] = NoFile

\* Invocation i is inside the locked section of a sync.
Syncing(i) == cmd[i].kind = "sync" /\ pc[i] \in {"read", "loop", "planned"}

\* The entries of state.json whose name is not among the packages the sync
\* loaded.
SyncOrphans(i) == DOMAIN statefile \ DOMAIN packages[i]

\* Every document a sync writes holds each orphan entry unchanged, and a
\* sync without packages writes nothing and installs nothing.
OrphanEntriesKept ==
    [][Syncing("p") =>
        /\ \A n \in SyncOrphans("p") :
              n \in DOMAIN statefile' /\ statefile'[n] = statefile[n]
        /\ DOMAIN packages["p"] = {} => statefile' = statefile /\ fs' = fs]_vars

\* C36: run_sync never removes or alters the state entry or the binary of
\* a package that has no package file: every document it writes holds each
\* orphan entry unchanged, the file at an orphan's recorded path is left as
\* it is, and without declared packages nothing is written at all.
C36_OrphansUntouched ==
    [][Syncing("p") =>
        /\ \A n \in SyncOrphans("p") :
              /\ n \in DOMAIN statefile' /\ statefile'[n] = statefile[n]
              /\ fs'[statefile[n].binary_fpath] = fs[statefile[n].binary_fpath]
        /\ DOMAIN packages["p"] = {} => statefile' = statefile /\ fs' = fs]_vars

\* Package b has no package file any more; its entry records the path at
\* which the sync has since installed release 2 of package a.
C36_Witness ==
    /\ DOMAIN pkgfiles = {"a"}
    /\ pc["p"] = "idle"
    /\ DOMAIN statefile = Names
    /\ statefile["b"].binary_fpath = statefile["a"].binary_fpath
    /\ statefile["a"].version = 2
    /\ statefile["b"].version = 1
    /\ fs[statefile["b"].binary_fpath] = Payload("a", 2)

\* A sync leaves the file at an orphan's recorded path alone when no
\* package it loaded installs to that path.
OrphanBinariesApart ==
    [][Syncing("p") =>
        \A n \in SyncOrphans("p") :
            (\A m \in DOMAIN packages["p"] :
                 packages["p"][m] # statefile[n].binary_fpath)
                => fs'[statefile[n].binary_fpath] = fs[statefile[n].binary_fpath]]_vars

\* C37: run_prune never deletes a file that is the recorded binary path of
\* a package that is still declared, in every reachable state, those where
\* an orphan entry and a declared package's entry record one path included.
C37_PruneSparesDeclared ==
    [][PruneSweep("p") =>
        \A n \in DOMAIN statefile \cap DOMAIN packages["p"] :
            fs'[statefile[n].binary_fpath] = fs[statefile[n].binary_fpath]]_vars

\* Package a is declared and recorded, b's package file was removed, and
\* the prune that dropped b's entry has deleted the binary a's entry records.
C37_Witness ==
    /\ pc["p"] = "idle"
    /\ envs = MaxSeqEnv - 1
    /\ DOMAIN pkgfiles = {"a"}
    /\ DOMAIN statefile = {"a"}
    /\ statefile["a"].version = 1
    /\ fs[statefile["a"].binary_fpath] = Absent

\* The sweep spares the binary of a declared package when no orphan entry
\* records the same path.
PruneSparesApart ==
    [][PruneSweep("p") =>
        \A n \in DOMAIN statefile \cap DOMAIN packages["p"] :
            (\A m \in DOMAIN statefile \ DOMAIN packages["p"] :
                 statefile[m].binary_fpath # statefile[n].binary_fpath)
                => fs'[statefile[n].binary_fpath] = fs[statefile[n].binary_fpath]]_vars

\* The URL a method asks its endpoint for.
EndpointUrl(call) ==
    IF call.method = "get_latest_release" THEN LatestUrl(call.pkg)
    ELSE TagUrl(call.pkg, call.tag)

\* C38: get_release_by_tag(repo, tag) only returns a release obtained from
\* the tag endpoint for that tag, and get_latest_release(repo) only one
\* obtained from the latest endpoint: a release returned without a request
\* was fetched by an earlier call of the same method with the same
\* arguments, for every tag string and every order of calls.
C38_CachesApart ==
    fn.op = "client" =>
        \A k \in 1..Len(fn.log) :
            fn.log[k].raised = None =>
                IF fn.log[k].requests # <<>>
                THEN fn.log[k].requests[1] = EndpointUrl(fn.log[k])
                ELSE \E l \in 1..(k - 1) :
                        /\ SameCall(k, l)
                        /\ fn.log[l].raised = None
                        /\ fn.log[l].requests = <<EndpointUrl(fn.log[k])>>
                        /\ fn.log[l].release = fn.log[k].release

\* The release tagged "latest" was fetched by get_release_by_tag, and
\* get_latest_release then returns it without asking the latest endpoint.
C38_Witness ==
    /\ fn.op = "client"
    /\ Len(fn.log) = 2
    /\ fn.log[1].method = "get_release_by_tag"
    /\ fn.log[1].requests = <<TagUrl("o/r", "latest")>>
    /\ fn.log[1].release = Release("latest", <<>>)
    /\ fn.log[2].method = "get_latest_release"
    /\ fn.log[2].requests = <<>>
    /\ fn.log[2].release = Release("latest", <<>>)

\* On a client never asked for a tag named "latest" the two methods never
\* return each other's releases.
VersionTagsCachesApart ==
    (/\ fn.op = "client"
     /\ \A k \in 1..Len(fn.log) :
            fn.log[k].method = "get_release_by_tag" => fn.log[k].tag # "latest")
        => C38_CachesApart

\* C39: the lock is released on every exit from the locked section, so a
\* later invocation acquires it; a refused acquire leaves the holder's lock
\* held; the lock file left behind never makes an acquire fail by itself.
C39_LockReleased ==
    fn.op = "acquire_lock" =>
        /\ fn.at = "left" => fn.holder = None /\ fn.file
        /\ fn.at \in {"body", "finally"} => fn.holder = "self"
        /\ fn.at = "refused" =>
            /\ fn.raised = "LockError"
            /\ fn.found.holder = "other"
            /\ fn.holder = "other"
        /\ fn.at \notin {"enter", "refused"} => fn.found.holder = None
        /\ fn.at # "enter" /\ fn.found.holder = None => fn.at # "refused"

\* The first block was left by a StateError; the next invocation found the
\* lock file, took the lock and is in its body.
C39_Witness ==
    /\ fn.op = "acquire_lock"
    /\ fn.round = 2
    /\ fn.exits = <<"StateError">>
    /\ fn.at = "body"
    /\ fn.found = [file |-> TRUE, holder |-> None]
    /\ fn.holder = "self"

\* The iteration of invocation i that ends by recording a failure.
RecordsFailure(i) ==
    /\ cmd[i].kind = "sync"
    /\ pc[i] \in AfterRead
    /\ Len(failures'[i]) = Len(failures[i]) + 1

\* A failure of planning, of the download or of the installer leaves every
\* file of the bin directory as it was: only a failed post_install or verify
\* hook comes after the rename.
FailedInstallKeepsBinary ==
    [][(RecordsFailure("p")
        /\ failures'["p"][Len(failures'["p"])].kind \notin {"post_install", "verify"})
       => fs' = fs]_vars

\* C40: when a package is recorded as failed, a failed post_install or
\* verify hook included, the file at its install path is what it was before:
\* a package whose state entry was not updated never has its binary replaced.
C40_FailedKeepsBinary ==
    [][RecordsFailure("p")
       => LET name == Head(queue["p"])
          IN fs'[packages["p"][name]] = fs[packages["p"][name]]]_vars

\* The verify hook of package a failed on the update to release 2: the entry
\* of a still records release 1 and the file at its path is release 2.
C40_Witness ==
    /\ cmd["p"].kind = "sync"
    /\ pc["p"] = "loop"
    /\ failures["p"] = <<Failure("a", "verify")>>
    /\ "a" \in DOMAIN statefile
    /\ statefile["a"].version = 1
    /\ fs[packages["p"]["a"]] = Payload("a", 2)
    /\ \A n \in DOMAIN packages["p"] \ {"a"} :
          packages["p"][n] # packages["p"]["a"]

====
